---- MODULE Spec2Model ----
(***************************************************************************)
(* State-machine model of the backtest engine (backtest/engine.py).       *)
(* Prices and capital are integers (currency units); percentages are      *)
(* integer percents.  Optional values (Optional[float], Optional[Bar],     *)
(* Optional[Signal]) are sequences of length 0 (None) or 1.                *)
(***************************************************************************)
EXTENDS Integers, Sequences, FiniteSets, TLC

VARIABLES
    pc,                 \* position of run(): idle, exit, entry, close, done
    config,             \* BacktestConfig of the engine
    strategy,           \* self.strategy: its levels, its policy and its per-symbol state
    symbols,            \* run() argument: list of symbols
    bars_by_symbol,     \* run() argument: symbol -> list of bars
    available_capital,  \* self.available_capital
    positions,          \* self.positions, in dict insertion order
    trades,             \* self.trades
    equity_curve,       \* self.equity_curve
    sorted_timestamps,  \* run(): sorted_timestamps
    ti,                 \* run(): index of the timestamp being processed
    xi,                 \* run(): index into symbols of the first (exit) pass
    ei,                 \* run(): index into symbols of the second (entry) pass
    current_prices,     \* run(): current_prices of the timestamp
    last_eval,          \* observation of the latest _check_exit_conditions / _check_entry call
    results,            \* the BacktestResults run() has returned, as they were when returned
    entries,            \* number of positions _open_position has created since reset()
    call,               \* a call of a metrics, indicator or risk function: its name and arguments
    ret,                \* what that call returned or raised, None while it has not run
    pm                  \* a PositionManager: capital, positions, trade_history, peak_equity

vars == <<pc, config, strategy, symbols, bars_by_symbol, available_capital, positions,
          trades, equity_curve, sorted_timestamps, ti, xi, ei, current_prices,
          last_eval, results, entries, call, ret, pm>>

(***************************************************************************)
(* Bounds and input domains                                                *)
(***************************************************************************)
\* number of distinct timestamps a bar may carry
MaxT == 2
\* number of bars in bars_by_symbol, all symbols together
MaxBars == 3
\* number of calls of run() on one engine
MaxRuns == 2
\* length of a trade list handed to calculate_metrics
MaxTrades == 3
\* length of an equity curve handed to the metrics functions
MaxCurve == 3

None == <<>>
Some(x) == <<x>>

Timestamps == 1..MaxT

\* data/models.py Action
BUY == "buy"
SELL == "sell"
HOLD == "hold"

\* data/models.py Bar (volume is never read by the engine)
Bar(t, o, h, l, c) == [timestamp |-> t, open |-> o, high |-> h, low |-> l, close |-> c]

\* OHLC shapes of the bars fed to the multi-symbol runs
BarShapes ==
    << [open |-> 100, high |-> 105, low |-> 95, close |-> 100],
       [open |-> 92,  high |-> 112, low |-> 88, close |-> 90] >>

\* bar list of one symbol from a choice of shape (0: no bar) per timestamp
RECURSIVE BarList(_, _)
BarList(f, t) ==
    IF t > MaxT THEN <<>>
    ELSE IF f[t] = 0 THEN BarList(f, t + 1)
         ELSE <<Bar(t, BarShapes[f[t]].open, BarShapes[f[t]].high,
                    BarShapes[f[t]].low, BarShapes[f[t]].close)>> \o BarList(f, t + 1)

BarLists == { BarList(f, 1) : f \in [Timestamps -> 0..Len(BarShapes)] }

\* the symbols that key bars_by_symbol in the multi-symbol runs
Keys == {"A", "B"}

\* backtest/engine.py BacktestConfig
BacktestConfig(cap, pct, maxp, comm) ==
    [initial_capital |-> cap, position_size_pct |-> pct, max_positions |-> maxp,
     commission_per_trade |-> comm]

\* the engines built and the symbols lists they are run on: a list in another
\* order with a repeated symbol, and one naming a symbol that has no bars
EngineInputs ==
    { [config |-> BacktestConfig(400, 50, 2, 0),  symbols |-> <<"A", "B">>],
      [config |-> BacktestConfig(400, 50, 1, 5),  symbols |-> <<"A", "B">>],
      [config |-> BacktestConfig(200, 100, 2, 5), symbols |-> <<"A", "B">>],
      [config |-> BacktestConfig(400, 50, 2, 0),  symbols |-> <<"B", "A", "A">>],
      [config |-> BacktestConfig(400, 50, 2, 5),  symbols |-> <<"A", "C">>] }

RECURSIVE TotalBars(_, _)
TotalBars(bbs, keys) ==
    IF keys = {} THEN 0
    ELSE LET k == CHOOSE x \in keys : TRUE
         IN  Len(bbs[k]) + TotalBars(bbs, keys \ {k})

BarInputs == { b \in [Keys -> BarLists] : TotalBars(b, Keys) <= MaxBars }

\* data/models.py Signal (the fields the engine reads)
Signal(a, sl, tp, r) == [action |-> a, stop_loss |-> sl, take_profit |-> tp, reason |-> r]

\* stop-loss / take-profit levels a strategy may put on a buy signal
SignalLevels ==
    { [stop_loss |-> Some(90), take_profit |-> Some(110)],
      [stop_loss |-> None,     take_profit |-> None] }

\* every combination of a stop at 90 and a target at 110, set or not, and a
\* stop above the target
GridLevels ==
    { [stop_loss |-> sl, take_profit |-> tp] : sl \in {None, Some(90)}, tp \in {None, Some(110)} }
    \cup { [stop_loss |-> Some(110), take_profit |-> Some(90)] }

\* prices below, at, between, at and above those levels
PriceGrid == {80, 84, 85, 86, 88, 90, 92, 100, 108, 110, 112}

\* every well-formed bar (low <= open, close <= high) of the grid, at timestamp 2
GridBars ==
    { Bar(2, o, h, l, c) : <<o, h, l, c>> \in
        { q \in PriceGrid \X PriceGrid \X PriceGrid \X PriceGrid :
            q[3] <= q[1] /\ q[1] <= q[2] /\ q[3] <= q[4] /\ q[4] <= q[2] } }

\* what strategy.on_bar(symbol, bar, history, position_open) may return: None or
\* a Signal; buy, sell and no signal are possible answers to either question
StrategySignals(strat, position_open) ==
    {None}
    \cup { Some(Signal(SELL, None, None, r)) : r \in IF position_open THEN {"", "rsi_exit"} ELSE {""} }
    \cup { Some(Signal(BUY, lv.stop_loss, lv.take_profit, "entry")) :
             lv \in IF position_open THEN { [stop_loss |-> None, take_profit |-> None] }
                                     ELSE strat.levels }
    \cup IF position_open THEN { Some(Signal(HOLD, None, None, "")) } ELSE {}

\* a strategy of which nothing is known: any answer to any call, no state
AnyStrategy(levels) == [levels |-> levels, policy |-> None, symbol_state |-> <<>>]

\* a deterministic strategy: its answer is a function of position_open and of the
\* parity, kept in _symbol_state, of the calls it has had for the symbol
PolicyStrategy(levels, policy) ==
    [levels |-> levels, policy |-> Some(policy), symbol_state |-> <<>>]

\* the deterministic strategies run: hold or buy with both levels when flat,
\* hold or sell when in a position, by the parity of the symbol's calls
Policies ==
    { f \in [BOOLEAN \X {0, 1} -> {None, Some(Signal(BUY, Some(90), Some(110), "entry")),
                                    Some(Signal(SELL, None, None, "rsi_exit"))}] :
        /\ \A n \in {0, 1} : f[<<FALSE, n>>] = None \/ f[<<FALSE, n>>][1].action = BUY
        /\ \A n \in {0, 1} : f[<<TRUE, n>>] = None \/ f[<<TRUE, n>>][1].action = SELL
        /\ f[<<TRUE, 0>>] = f[<<TRUE, 1>>] }

\* BaseStrategy._get_state: the state kept for a symbol, 0 when it has none
Seen(strat, symbol) ==
    IF symbol \in DOMAIN strat.symbol_state THEN strat.symbol_state[symbol] ELSE 0

\* strategy.on_bar(symbol, bar, history, position_open): the answers possible
OnBar(strat, symbol, position_open) ==
    IF strat.policy = None THEN StrategySignals(strat, position_open)
    ELSE { strat.policy[1][<<position_open, Seen(strat, symbol)>>] }

\* strategy.on_bar: the state it leaves (BaseStrategy._set_state)
AfterOnBar(strat, symbol) ==
    IF strat.policy = None THEN strat
    ELSE [strat EXCEPT !.symbol_state = (symbol :> ((Seen(strat, symbol) + 1) % 2)) @@ @]

\* BaseStrategy.reset
ResetStrategy(strat) == [strat EXCEPT !.symbol_state = <<>>]

(***************************************************************************)
(* Helpers of the engine                                                   *)
(***************************************************************************)
\* Python truthiness of an Optional[float]: None and 0 are falsy
Truthy(x) == x # None /\ x[1] # 0

\* bars_by_symbol.get(symbol, [])
GetBars(bbs, symbol) == IF symbol \in DOMAIN bbs THEN bbs[symbol] ELSE <<>>

\* mutant of GetBarAtTimestamp: a missing bar is filled with the latest earlier one
GetBarAtTimestamp_ForwardFill(bars, timestamp) ==
    LET hits == { i \in 1..Len(bars) : bars[i].timestamp <= timestamp }
    IN  IF hits = {} THEN None
        ELSE Some(bars[CHOOSE i \in hits : \A j \in hits : i >= j])

\* _get_bar_at_timestamp: the first bar with that timestamp, or None
GetBarAtTimestamp(bars, timestamp) ==
    LET hits == { i \in 1..Len(bars) : bars[i].timestamp = timestamp }
    IN  IF hits = {} THEN None
        ELSE Some(bars[CHOOSE i \in hits : \A j \in hits : i <= j])

\* mutant of IsUpTo: every bar of the symbol is kept
IsUpTo_AnyBar(b, timestamp) == TRUE

\* _get_history_up_to
IsUpTo(b, timestamp) == b.timestamp <= timestamp
GetHistoryUpTo(bars, timestamp) ==
    LET Keep(b) == IsUpTo(b, timestamp) IN SelectSeq(bars, Keep)

\* mutant of SortedSeq: the timestamps are walked from the latest to the earliest
RECURSIVE SortedSeq_Descending(_)
SortedSeq_Descending(S) ==
    IF S = {} THEN <<>>
    ELSE LET m == CHOOSE x \in S : \A y \in S : x >= y
         IN  <<m>> \o SortedSeq_Descending(S \ {m})

\* sorted(all_timestamps)
RECURSIVE SortedSeq(_)
SortedSeq(S) ==
    IF S = {} THEN <<>>
    ELSE LET m == CHOOSE x \in S : \A y \in S : x <= y
         IN  <<m>> \o SortedSeq(S \ {m})

AllTimestamps(bbs) ==
    UNION { { bbs[k][i].timestamp : i \in 1..Len(bbs[k]) } : k \in DOMAIN bbs }

\* symbol in self.positions
PosIndex(ps, symbol) ==
    LET hits == { i \in 1..Len(ps) : ps[i].symbol = symbol }
    IN  IF hits = {} THEN 0 ELSE CHOOSE i \in hits : TRUE
InPositions(ps, symbol) == PosIndex(ps, symbol) # 0

\* del self.positions[symbol]
RemoveAt(s, i) == SubSeq(s, 1, i - 1) \o SubSeq(s, i + 1, Len(s))

\* int(x / y) for y > 0: truncation toward zero
TruncDiv(x, y) == IF x >= 0 THEN x \div y ELSE -((-x) \div y)

Abs(x) == IF x < 0 THEN -x ELSE x

(***************************************************************************)
(* Engine operations.  st is the engine state a helper reads and writes:   *)
(* [available_capital, positions, trades].                                 *)
(***************************************************************************)
EngineState(cap, ps, ts) == [available_capital |-> cap, positions |-> ps, trades |-> ts]

\* mutant of StopHit: a low equal to the stop does not count as a hit
StopHit_Strict(position, bar) ==
    Truthy(position.stop_loss) /\ bar.low < position.stop_loss[1]

\* _check_exit_conditions: stop_hit / tp_hit
StopHit(position, bar) == Truthy(position.stop_loss) /\ bar.low <= position.stop_loss[1]
TpHit(position, bar) == Truthy(position.take_profit) /\ bar.high >= position.take_profit[1]

\* the rules of _determine_exit_price below the two gap rules, for its mutants
ExitPriceNoGap(bar, position, stop_hit, tp_hit) ==
    IF stop_hit /\ tp_hit
    THEN LET dist_to_stop == Abs(bar.open - position.stop_loss[1])
             dist_to_tp == Abs(bar.open - position.take_profit[1])
         IN  IF dist_to_stop < dist_to_tp
             THEN [price |-> position.stop_loss[1], reason |-> "stop_loss"]
             ELSE [price |-> position.take_profit[1], reason |-> "take_profit"]
    ELSE IF stop_hit
    THEN [price |-> position.stop_loss[1], reason |-> "stop_loss"]
    ELSE IF tp_hit
    THEN [price |-> position.take_profit[1], reason |-> "take_profit"]
    ELSE [price |-> bar.close, reason |-> "unknown"]

\* mutant of DetermineExitPrice: a gap through the stop is filled at the stop
DetermineExitPrice_NoStopGap(bar, position, stop_hit, tp_hit) ==
    IF tp_hit /\ bar.open > position.take_profit[1]
    THEN [price |-> bar.open, reason |-> "take_profit_gap"]
    ELSE ExitPriceNoGap(bar, position, stop_hit, tp_hit)

\* mutant of DetermineExitPrice: a gap through the target is filled at the target
DetermineExitPrice_NoTargetGap(bar, position, stop_hit, tp_hit) ==
    IF stop_hit /\ bar.open < position.stop_loss[1]
    THEN [price |-> bar.open, reason |-> "stop_loss_gap"]
    ELSE ExitPriceNoGap(bar, position, stop_hit, tp_hit)

\* mutant of DetermineExitPrice: the stop always wins a bar that hits both levels
DetermineExitPrice_StopFirst(bar, position, stop_hit, tp_hit) ==
    IF stop_hit /\ bar.open < position.stop_loss[1]
    THEN [price |-> bar.open, reason |-> "stop_loss_gap"]
    ELSE IF tp_hit /\ bar.open > position.take_profit[1]
    THEN [price |-> bar.open, reason |-> "take_profit_gap"]
    ELSE IF stop_hit
    THEN [price |-> position.stop_loss[1], reason |-> "stop_loss"]
    ELSE ExitPriceNoGap(bar, position, stop_hit, tp_hit)

\* mutant of DetermineExitPrice: no gap rule, a level that is hit is the price
DetermineExitPrice_NoGaps(bar, position, stop_hit, tp_hit) ==
    ExitPriceNoGap(bar, position, stop_hit, tp_hit)

\* mutant of DetermineExitPrice: the stop wins a bar whose open is as far from the
\* stop as from the target
DetermineExitPrice_TieToStop(bar, position, stop_hit, tp_hit) ==
    IF stop_hit /\ bar.open < position.stop_loss[1]
    THEN [price |-> bar.open, reason |-> "stop_loss_gap"]
    ELSE IF tp_hit /\ bar.open > position.take_profit[1]
    THEN [price |-> bar.open, reason |-> "take_profit_gap"]
    ELSE IF stop_hit /\ tp_hit
    THEN LET dist_to_stop == Abs(bar.open - position.stop_loss[1])
             dist_to_tp == Abs(bar.open - position.take_profit[1])
         IN  IF dist_to_stop <= dist_to_tp
             THEN [price |-> position.stop_loss[1], reason |-> "stop_loss"]
             ELSE [price |-> position.take_profit[1], reason |-> "take_profit"]
    ELSE ExitPriceNoGap(bar, position, stop_hit, tp_hit)

\* _determine_exit_price
DetermineExitPrice(bar, position, stop_hit, tp_hit) ==
    IF stop_hit /\ bar.open < position.stop_loss[1]
    THEN [price |-> bar.open, reason |-> "stop_loss_gap"]
    ELSE IF tp_hit /\ bar.open > position.take_profit[1]
    THEN [price |-> bar.open, reason |-> "take_profit_gap"]
    ELSE IF stop_hit /\ tp_hit
    THEN LET dist_to_stop == Abs(bar.open - position.stop_loss[1])
             dist_to_tp == Abs(bar.open - position.take_profit[1])
         IN  IF dist_to_stop < dist_to_tp
             THEN [price |-> position.stop_loss[1], reason |-> "stop_loss"]
             ELSE [price |-> position.take_profit[1], reason |-> "take_profit"]
    ELSE IF stop_hit
    THEN [price |-> position.stop_loss[1], reason |-> "stop_loss"]
    ELSE IF tp_hit
    THEN [price |-> position.take_profit[1], reason |-> "take_profit"]
    ELSE [price |-> bar.close, reason |-> "unknown"]

\* mutant of TradeOf: the pnl of a trade carries the entry commission too
TradeOf_BothCommissions(position, exit_price, exit_time, reason, commission) ==
    [ symbol |-> position.symbol,
      entry_price |-> position.entry_price,
      entry_time |-> position.entry_time,
      exit_price |-> exit_price,
      exit_time |-> exit_time,
      shares |-> position.shares,
      pnl |-> (exit_price - position.entry_price) * position.shares - 2 * commission,
      pnl_pct |-> [num |-> (exit_price - position.entry_price) * 100, den |-> position.entry_price],
      reason |-> reason ]

\* _close_position: the TradeResult recorded (pnl_pct kept as an exact fraction)
TradeOf(position, exit_price, exit_time, reason, commission) ==
    [ symbol |-> position.symbol,
      entry_price |-> position.entry_price,
      entry_time |-> position.entry_time,
      exit_price |-> exit_price,
      exit_time |-> exit_time,
      shares |-> position.shares,
      pnl |-> (exit_price - position.entry_price) * position.shares - commission,
      pnl_pct |-> [num |-> (exit_price - position.entry_price) * 100, den |-> position.entry_price],
      reason |-> reason ]

\* mutant of ClosePosition: the capital is credited with the pnl, not the proceeds
ClosePosition_PnlOnly(st, cfg, symbol, exit_price, exit_time, reason) ==
    IF ~InPositions(st.positions, symbol) THEN st
    ELSE LET i == PosIndex(st.positions, symbol)
             position == st.positions[i]
             trade == TradeOf(position, exit_price, exit_time, reason, cfg.commission_per_trade)
         IN  EngineState(st.available_capital + trade.pnl,
                         RemoveAt(st.positions, i),
                         Append(st.trades, trade))

\* mutant of ClosePosition: the position is dropped and paid out, no trade is recorded
ClosePosition_NoTrade(st, cfg, symbol, exit_price, exit_time, reason) ==
    IF ~InPositions(st.positions, symbol) THEN st
    ELSE LET i == PosIndex(st.positions, symbol)
             position == st.positions[i]
             proceeds == exit_price * position.shares - cfg.commission_per_trade
         IN  EngineState(st.available_capital + proceeds, RemoveAt(st.positions, i), st.trades)

\* mutant of ClosePosition: the trade is recorded and paid out, the position stays
\* in the table
ClosePosition_KeepPosition(st, cfg, symbol, exit_price, exit_time, reason) ==
    IF ~InPositions(st.positions, symbol) THEN st
    ELSE LET i == PosIndex(st.positions, symbol)
             position == st.positions[i]
             proceeds == exit_price * position.shares - cfg.commission_per_trade
         IN  EngineState(st.available_capital + proceeds,
                         st.positions,
                         Append(st.trades, TradeOf(position, exit_price, exit_time, reason,
                                                   cfg.commission_per_trade)))

\* _close_position
ClosePosition(st, cfg, symbol, exit_price, exit_time, reason) ==
    IF ~InPositions(st.positions, symbol) THEN st
    ELSE LET i == PosIndex(st.positions, symbol)
             position == st.positions[i]
             proceeds == exit_price * position.shares - cfg.commission_per_trade
         IN  EngineState(st.available_capital + proceeds,
                         RemoveAt(st.positions, i),
                         Append(st.trades, TradeOf(position, exit_price, exit_time, reason,
                                                   cfg.commission_per_trade)))

\* _open_position: shares = int(position_value / bar.close)
SharesFor(cap, cfg, bar) == TruncDiv(cap * cfg.position_size_pct, 100 * bar.close)

\* mutant of EntryCost: the commission is not charged on entry
EntryCost_NoCommission(shares, cfg, bar) == shares * bar.close

\* _open_position: cost = shares * bar.close + commission
EntryCost(shares, cfg, bar) == shares * bar.close + cfg.commission_per_trade

\* self.positions[symbol] = Position(...): a present key keeps its place in the dict
PutPosition(ps, position) ==
    IF InPositions(ps, position.symbol)
    THEN [ps EXCEPT ![PosIndex(ps, position.symbol)] = position]
    ELSE Append(ps, position)

\* mutant of OpenPosition: an order of no shares is not turned away
OpenPosition_NoSharesCheck(st, cfg, symbol, bar, signal) ==
    LET shares == SharesFor(st.available_capital, cfg, bar)
        cost == EntryCost(shares, cfg, bar)
    IN  IF cost > st.available_capital THEN st
        ELSE EngineState(st.available_capital - cost,
                         PutPosition(st.positions,
                                     [ symbol |-> symbol,
                                       shares |-> shares,
                                       entry_price |-> bar.close,
                                       entry_time |-> bar.timestamp,
                                       stop_loss |-> signal.stop_loss,
                                       take_profit |-> signal.take_profit ]),
                         st.trades)

\* mutant of OpenPosition: the cost is not compared with the available capital
OpenPosition_NoCostCheck(st, cfg, symbol, bar, signal) ==
    LET shares == SharesFor(st.available_capital, cfg, bar)
        cost == EntryCost(shares, cfg, bar)
    IN  IF shares <= 0 THEN st
        ELSE EngineState(st.available_capital - cost,
                         PutPosition(st.positions,
                                     [ symbol |-> symbol,
                                       shares |-> shares,
                                       entry_price |-> bar.close,
                                       entry_time |-> bar.timestamp,
                                       stop_loss |-> signal.stop_loss,
                                       take_profit |-> signal.take_profit ]),
                         st.trades)

\* _open_position
OpenPosition(st, cfg, symbol, bar, signal) ==
    LET shares == SharesFor(st.available_capital, cfg, bar)
        cost == EntryCost(shares, cfg, bar)
    IN  IF shares <= 0 THEN st
        ELSE IF cost > st.available_capital THEN st
        ELSE EngineState(st.available_capital - cost,
                         PutPosition(st.positions,
                                     [ symbol |-> symbol,
                                       shares |-> shares,
                                       entry_price |-> bar.close,
                                       entry_time |-> bar.timestamp,
                                       stop_loss |-> signal.stop_loss,
                                       take_profit |-> signal.take_profit ]),
                         st.trades)

\* _check_exit_conditions: whether strategy.on_bar is reached
ExitConsults(st, symbol, bar) ==
    /\ InPositions(st.positions, symbol)
    /\ LET position == st.positions[PosIndex(st.positions, symbol)]
       IN  ~(StopHit(position, bar) \/ TpHit(position, bar))

\* mutant of CheckExitConditions: the signal's reason is recorded as it is, empty or not
CheckExitConditions_RawReason(st, cfg, symbol, bar, signal) ==
    IF ~InPositions(st.positions, symbol) THEN st
    ELSE LET position == st.positions[PosIndex(st.positions, symbol)]
             stop_hit == StopHit(position, bar)
             tp_hit == TpHit(position, bar)
         IN  IF stop_hit \/ tp_hit
             THEN LET x == DetermineExitPrice(bar, position, stop_hit, tp_hit)
                  IN  ClosePosition(st, cfg, symbol, x.price, bar.timestamp, x.reason)
             ELSE IF signal # None /\ signal[1].action = SELL
             THEN ClosePosition(st, cfg, symbol, bar.close, bar.timestamp, signal[1].reason)
             ELSE st

\* _check_exit_conditions; signal is what strategy.on_bar returns when it is reached
CheckExitConditions(st, cfg, symbol, bar, signal) ==
    IF ~InPositions(st.positions, symbol) THEN st
    ELSE LET position == st.positions[PosIndex(st.positions, symbol)]
             stop_hit == StopHit(position, bar)
             tp_hit == TpHit(position, bar)
         IN  IF stop_hit \/ tp_hit
             THEN LET x == DetermineExitPrice(bar, position, stop_hit, tp_hit)
                  IN  ClosePosition(st, cfg, symbol, x.price, bar.timestamp, x.reason)
             ELSE IF signal # None /\ signal[1].action = SELL
             THEN ClosePosition(st, cfg, symbol, bar.close, bar.timestamp,
                                IF signal[1].reason # "" THEN signal[1].reason ELSE "signal")
             ELSE st

\* mutant of EntryConsults: the table may grow one past max_positions
EntryConsults_OffByOne(st, cfg) == ~(Len(st.positions) > cfg.max_positions)

\* _check_entry: whether strategy.on_bar is reached
EntryConsults(st, cfg) == ~(Len(st.positions) >= cfg.max_positions)

\* _check_entry; signal is what strategy.on_bar returns when it is reached
CheckEntry(st, cfg, symbol, bar, signal) ==
    IF ~EntryConsults(st, cfg) THEN st
    ELSE IF signal # None /\ signal[1].action = BUY
    THEN OpenPosition(st, cfg, symbol, bar, signal[1])
    ELSE st

\* current_prices.get(symbol, default)
PriceOr(prices, symbol, default) == IF symbol \in DOMAIN prices THEN prices[symbol] ELSE default

RECURSIVE PositionsValue(_, _)
PositionsValue(ps, prices) ==
    IF ps = <<>> THEN 0
    ELSE PriceOr(prices, Head(ps).symbol, Head(ps).entry_price) * Head(ps).shares
         + PositionsValue(Tail(ps), prices)

\* mutant of CalculateEquity: every position is valued at its entry price
CalculateEquity_CostBasis(st, prices) ==
    st.available_capital + PositionsValue(st.positions, <<>>)

\* _calculate_equity
CalculateEquity(st, prices) == st.available_capital + PositionsValue(st.positions, prices)

\* mutant of CloseAll: the first bar of the symbol is taken for its last
RECURSIVE CloseAll_FirstBar(_, _, _, _)
CloseAll_FirstBar(st, cfg, keys, bbs) ==
    IF keys = <<>> THEN st
    ELSE LET symbol == Head(keys)
         IN  IF symbol \in DOMAIN bbs /\ bbs[symbol] # <<>>
             THEN LET last_bar == bbs[symbol][1]
                  IN  CloseAll_FirstBar(ClosePosition(st, cfg, symbol, last_bar.close,
                                                      last_bar.timestamp, "end_of_test"),
                                        cfg, Tail(keys), bbs)
             ELSE CloseAll_FirstBar(st, cfg, Tail(keys), bbs)

\* run(): the closing loop over list(self.positions.keys())
RECURSIVE CloseAll(_, _, _, _)
CloseAll(st, cfg, keys, bbs) ==
    IF keys = <<>> THEN st
    ELSE LET symbol == Head(keys)
         IN  IF symbol \in DOMAIN bbs /\ bbs[symbol] # <<>>
             THEN LET last_bar == bbs[symbol][Len(bbs[symbol])]
                  IN  CloseAll(ClosePosition(st, cfg, symbol, last_bar.close,
                                             last_bar.timestamp, "end_of_test"),
                               cfg, Tail(keys), bbs)
             ELSE CloseAll(st, cfg, Tail(keys), bbs)

PositionKeys(ps) == [i \in 1..Len(ps) |-> ps[i].symbol]

\* mutant of ResetEngine: the capital is left as the previous run left it
ResetEngine_KeepCapital(st, cfg) == [available_capital |-> st.available_capital,
                                     positions |-> <<>>, trades |-> <<>>]

\* BacktestEngine.reset: capital, positions and trades (in place)
ResetEngine(st, cfg) == EngineState(cfg.initial_capital, <<>>, <<>>)

\* BacktestResult (strategy_name, config and metrics left out)
BacktestResult(tr, eq) == [trades |-> tr, equity_curve |-> eq]

\* what the caller reads in a returned BacktestResult: run() builds it with
\* trades=self.trades and equity_curve=self.equity_curve, the engine's own list
\* objects, which the engine never rebinds; so it reads the engine's lists as
\* they are now
ResultTrades(engine_trades) == engine_trades
ResultEquityCurve(engine_equity_curve) == engine_equity_curve

(***************************************************************************)
(* The state machine of BacktestEngine.run                                 *)
(***************************************************************************)
St == EngineState(available_capital, positions, trades)

NoEval ==
    [ fn |-> "none", symbol |-> "", bar |-> None, position |-> None, history |-> <<>>,
      consulted |-> FALSE, position_open |-> FALSE, signal |-> None,
      n_open |-> 0, n_trades |-> 0, capital |-> 0, table |-> <<>>, index |-> 0 ]

\* what one call of _check_exit_conditions or _check_entry saw and was answered
Eval(fn, symbol, bar, history, position_open, consulted, signal) ==
    [ fn |-> fn, symbol |-> symbol, bar |-> Some(bar),
      position |-> IF InPositions(positions, symbol)
                   THEN Some(positions[PosIndex(positions, symbol)]) ELSE None,
      history |-> IF consulted THEN history ELSE <<>>,
      consulted |-> consulted, position_open |-> (consulted /\ position_open),
      signal |-> IF consulted THEN signal ELSE None,
      n_open |-> Len(positions), n_trades |-> Len(trades), capital |-> available_capital,
      table |-> positions, index |-> IF fn = "exit" THEN xi ELSE ei ]

\* no function of the metrics, indicator or risk modules is being called
NoCall == [fn |-> "none"]

\* no PositionManager has been built
NoManager == [initial_capital |-> 0]

\* BacktestEngine.__init__ and the arguments the caller holds for run()
InitEngine(cfg) ==
    /\ pc = "idle"
    /\ config = cfg
    /\ available_capital = config.initial_capital
    /\ positions = <<>>
    /\ trades = <<>>
    /\ equity_curve = <<>>
    /\ sorted_timestamps = <<>>
    /\ ti = 1
    /\ xi = 1
    /\ ei = 1
    /\ current_prices = <<>>
    /\ last_eval = NoEval
    /\ results = <<>>
    /\ entries = 0
    /\ ret = None

Init ==
    \E inp \in EngineInputs :
        /\ InitEngine(inp.config)
        /\ call = NoCall
        /\ pm = NoManager
        /\ strategy = AnyStrategy(SignalLevels)
        /\ symbols = inp.symbols
        /\ bars_by_symbol \in BarInputs

\* one symbol, an entry bar and then any well-formed bar of the price grid, under
\* a strategy that may set either level
InitExit ==
    /\ InitEngine(BacktestConfig(400, 50, 2, 5))
    /\ call = NoCall
    /\ pm = NoManager
    /\ strategy = AnyStrategy(GridLevels)
    /\ symbols = <<"A">>
    /\ \E b \in GridBars :
          bars_by_symbol = [k \in {"A"} |-> <<Bar(1, 100, 105, 95, 100), b>>]

\* mutant of LoopAt: the loop leaves before the last timestamp
LoopAt_StopBeforeLast(i, n) == IF i < n THEN "exit" ELSE "close"

\* for timestamp in sorted_timestamps: the pass the loop enters next
LoopAt(i, n) == IF i <= n THEN "exit" ELSE "close"

\* mutant of CurrentPricesAtStart: the closes of the timestamps before are kept
CurrentPricesAtStart_Carried(previous) == previous

\* for timestamp in sorted_timestamps: current_prices = {}
CurrentPricesAtStart(previous) == <<>>

\* run(): reset() and the simulation clock
Run ==
    /\ pc = "idle"
    /\ UNCHANGED <<call, ret, pm>>
    /\ LET st == ResetEngine(St, config)
       IN  /\ available_capital' = st.available_capital
           /\ positions' = st.positions
           /\ trades' = st.trades
    /\ equity_curve' = <<>>
    /\ strategy' = ResetStrategy(strategy)
    /\ sorted_timestamps' = SortedSeq(AllTimestamps(bars_by_symbol))
    /\ ti' = 1
    /\ xi' = 1
    /\ ei' = 1
    /\ current_prices' = CurrentPricesAtStart(current_prices)
    /\ pc' = LoopAt(1, Len(sorted_timestamps'))
    /\ entries' = 0
    /\ UNCHANGED <<config, symbols, bars_by_symbol, last_eval, results>>

\* mutant of ExitPassDone: the first pass stops after the first symbol
ExitPassDone_AfterFirst(i, syms) == i > 1

\* the first pass has visited every symbol
ExitPassDone(i, syms) == i > Len(syms)

\* run(): one iteration of the first pass (prices and exits)
ExitStep ==
    /\ pc = "exit"
    /\ UNCHANGED <<call, ret, pm>>
    /\ ~ExitPassDone(xi, symbols)
    /\ LET symbol == symbols[xi]
           bars == GetBars(bars_by_symbol, symbol)
           bar == GetBarAtTimestamp(bars, sorted_timestamps[ti])
       IN  IF bar = None
           THEN UNCHANGED <<available_capital, positions, trades, current_prices, last_eval,
                            strategy>>
           ELSE /\ current_prices' = (symbol :> bar[1].close) @@ current_prices
                /\ IF ~InPositions(positions, symbol)
                   THEN UNCHANGED <<available_capital, positions, trades, last_eval, strategy>>
                   ELSE \E signal \in IF ExitConsults(St, symbol, bar[1])
                                      THEN OnBar(strategy, symbol, TRUE) ELSE {None} :
                          LET st == CheckExitConditions(St, config, symbol, bar[1], signal)
                          IN  /\ available_capital' = st.available_capital
                              /\ positions' = st.positions
                              /\ trades' = st.trades
                              /\ strategy' = IF ExitConsults(St, symbol, bar[1])
                                             THEN AfterOnBar(strategy, symbol) ELSE strategy
                              /\ last_eval' = Eval("exit", symbol, bar[1],
                                                   GetHistoryUpTo(bars, bar[1].timestamp), TRUE,
                                                   ExitConsults(St, symbol, bar[1]), signal)
    /\ xi' = xi + 1
    /\ UNCHANGED <<pc, config, symbols, bars_by_symbol, equity_curve, sorted_timestamps, ti, ei,
                   results, entries>>

\* run(): the first pass is over, the second begins
BeginEntryPass ==
    /\ pc = "exit"
    /\ UNCHANGED <<call, ret, pm>>
    /\ ExitPassDone(xi, symbols)
    /\ pc' = "entry"
    /\ ei' = 1
    /\ UNCHANGED <<config, strategy, symbols, bars_by_symbol, available_capital, positions, trades,
                   equity_curve, sorted_timestamps, ti, xi, current_prices, last_eval, results,
                   entries>>

\* mutant of EntryEligible: a symbol that holds a position is considered again
EntryEligible_AnySymbol(ps, symbol, bar) == bar # None

\* run(): if bar and symbol not in self.positions
EntryEligible(ps, symbol, bar) == bar # None /\ ~InPositions(ps, symbol)

\* run(): one iteration of the second pass (entries)
EntryStep ==
    /\ pc = "entry"
    /\ UNCHANGED <<call, ret, pm>>
    /\ ei <= Len(symbols)
    /\ LET symbol == symbols[ei]
           bars == GetBars(bars_by_symbol, symbol)
           bar == GetBarAtTimestamp(bars, sorted_timestamps[ti])
           history == GetHistoryUpTo(bars, sorted_timestamps[ti])
       IN  IF EntryEligible(positions, symbol, bar) /\ Len(history) > 0
           THEN \E signal \in IF EntryConsults(St, config)
                              THEN OnBar(strategy, symbol, FALSE) ELSE {None} :
                  LET st == CheckEntry(St, config, symbol, bar[1], signal)
                  IN  /\ available_capital' = st.available_capital
                      /\ positions' = st.positions
                      /\ trades' = st.trades
                      /\ strategy' = IF EntryConsults(St, config)
                                     THEN AfterOnBar(strategy, symbol) ELSE strategy
                      /\ entries' = IF st.positions # positions THEN entries + 1 ELSE entries
                      /\ last_eval' = Eval("entry", symbol, bar[1], history, FALSE,
                                           EntryConsults(St, config), signal)
           ELSE UNCHANGED <<available_capital, positions, trades, last_eval, strategy, entries>>
    /\ ei' = ei + 1
    /\ UNCHANGED <<pc, config, symbols, bars_by_symbol, equity_curve, sorted_timestamps,
                   ti, xi, current_prices, results>>

\* run(): record the equity of the timestamp and move to the next one
RecordEquity ==
    /\ pc = "entry"
    /\ UNCHANGED <<call, ret, pm>>
    /\ ei > Len(symbols)
    /\ equity_curve' = Append(equity_curve, CalculateEquity(St, current_prices))
    /\ ti' = ti + 1
    /\ xi' = 1
    /\ ei' = 1
    /\ current_prices' = CurrentPricesAtStart(current_prices)
    /\ pc' = LoopAt(ti + 1, Len(sorted_timestamps))
    /\ UNCHANGED <<config, strategy, symbols, bars_by_symbol, available_capital, positions, trades,
                   sorted_timestamps, last_eval, results, entries>>

\* run(): close the remaining positions and return
CloseRemaining ==
    /\ pc = "close"
    /\ UNCHANGED <<call, ret, pm>>
    /\ LET st == CloseAll(St, config, PositionKeys(positions), bars_by_symbol)
       IN  /\ available_capital' = st.available_capital
           /\ positions' = st.positions
           /\ trades' = st.trades
           /\ results' = Append(results, BacktestResult(st.trades, equity_curve))
    /\ pc' = "done"
    /\ UNCHANGED <<config, strategy, symbols, bars_by_symbol, equity_curve, sorted_timestamps,
                   ti, xi, ei, current_prices, last_eval, entries>>

Next == Run \/ ExitStep \/ BeginEntryPass \/ EntryStep \/ RecordEquity \/ CloseRemaining

Spec == Init /\ [][Next]_vars

SpecExit == InitExit /\ [][Next]_vars

\* a run over three timestamps in which symbol A has bars at the first two only:
\* the third timestamp comes from the one bar of B
GapTimestamp == 3
InitGap ==
    /\ \E cfg \in {BacktestConfig(400, 50, 2, 0), BacktestConfig(400, 50, 1, 5)} : InitEngine(cfg)
    /\ call = NoCall
    /\ pm = NoManager
    /\ strategy = AnyStrategy(SignalLevels)
    /\ symbols = <<"A", "B">>
    /\ \E a1, a2, b3 \in 1..Len(BarShapes) :
          bars_by_symbol =
            [k \in Keys |->
               IF k = "A"
               THEN <<Bar(1, BarShapes[a1].open, BarShapes[a1].high, BarShapes[a1].low,
                          BarShapes[a1].close),
                      Bar(2, BarShapes[a2].open, BarShapes[a2].high, BarShapes[a2].low,
                          BarShapes[a2].close)>>
               ELSE <<Bar(GapTimestamp, BarShapes[b3].open, BarShapes[b3].high,
                          BarShapes[b3].low, BarShapes[b3].close)>>]

SpecGap == InitGap /\ [][Next]_vars

\* the caller calls reset() on an engine whose run has returned (the first
\* statement of a later run() does the same), before it calls run() again
Reset ==
    /\ pc = "done"
    /\ UNCHANGED <<call, ret, pm>>
    /\ Len(results) < MaxRuns
    /\ LET st == ResetEngine(St, config)
       IN  /\ available_capital' = st.available_capital
           /\ positions' = st.positions
           /\ trades' = st.trades
    /\ equity_curve' = <<>>
    /\ strategy' = ResetStrategy(strategy)
    /\ last_eval' = NoEval
    /\ entries' = 0
    /\ pc' = "idle"
    /\ UNCHANGED <<config, symbols, bars_by_symbol, sorted_timestamps, ti, xi, ei,
                   current_prices, results>>

\* the engines run more than once: two symbols, a deterministic strategy, the
\* same symbols and bars at every call
InitRerun ==
    /\ \E cfg \in {BacktestConfig(400, 50, 2, 0), BacktestConfig(400, 50, 1, 5)} : InitEngine(cfg)
    /\ \E policy \in Policies : strategy = PolicyStrategy(SignalLevels, policy)
    /\ call = NoCall
    /\ pm = NoManager
    /\ symbols = <<"A", "B">>
    /\ bars_by_symbol \in BarInputs

NextRerun == Next \/ Reset

SpecRerun == InitRerun /\ [][NextRerun]_vars

(***************************************************************************)
(* Exact arithmetic for the float results of the metrics, indicator and    *)
(* risk functions: a number is a reduced fraction [num, den] with den > 0; *)
(* float('inf') is [1, 0].                                                 *)
(***************************************************************************)
RECURSIVE GCD(_, _)
GCD(a, b) == IF b = 0 THEN a ELSE GCD(b, a % b)

\* n / d for d # 0
Frac(n, d) ==
    LET g == GCD(Abs(n), Abs(d))
        sgn == IF d < 0 THEN -1 ELSE 1
    IN  [num |-> (sgn * n) \div g, den |-> (sgn * d) \div g]

Whole(x) == [num |-> x, den |-> 1]
Zero == Whole(0)
Inf == [num |-> 1, den |-> 0]

FAdd(a, b) == Frac(a.num * b.den + b.num * a.den, a.den * b.den)
FSub(a, b) == Frac(a.num * b.den - b.num * a.den, a.den * b.den)
FMul(a, b) == Frac(a.num * b.num, a.den * b.den)
\* a / b for b # 0
FDiv(a, b) == Frac(a.num * b.den, a.den * b.num)
FLess(a, b) == a.num * b.den < b.num * a.den
\* max(a, b) of Python: the first argument unless the second is greater
FMax(a, b) == IF FLess(a, b) THEN b ELSE a

RECURSIVE FSum(_)
FSum(fs) == IF fs = <<>> THEN Zero ELSE FAdd(Head(fs), FSum(Tail(fs)))

\* the two ways a call ends
Returned(v) == [raised |-> "", value |-> <<v>>]
Raised(e) == [raised |-> e, value |-> <<>>]

(***************************************************************************)
(* backtest/metrics.py                                                     *)
(***************************************************************************)
\* calculate_sharpe_ratio / calculate_calmar_ratio: periods_per_year = 252 * 78
PeriodsPerYear == 19656

\* BacktestMetrics
BacktestMetrics(total, winning, losing, win_rate, pf, total_pnl, avg_win, avg_loss, mdd, sharpe) ==
    [ total_trades |-> total, winning_trades |-> winning, losing_trades |-> losing,
      win_rate |-> win_rate, profit_factor |-> pf, total_pnl |-> total_pnl,
      avg_win |-> avg_win, avg_loss |-> avg_loss, max_drawdown |-> mdd,
      sharpe_ratio |-> sharpe ]

\* mutant of DrawdownFrom: the peak stays the first equity of the curve
RECURSIVE DrawdownFrom_FirstPeak(_, _, _)
DrawdownFrom_FirstPeak(curve, peak, max_dd) ==
    IF curve = <<>> THEN max_dd
    ELSE LET equity == Head(curve)
             new_max == IF peak > 0
                        THEN FMax(max_dd, FMul(Frac(peak - equity, peak), Whole(100)))
                        ELSE max_dd
         IN  DrawdownFrom_FirstPeak(Tail(curve), peak, new_max)

\* calculate_max_drawdown: the loop, from the peak and the maximum so far
RECURSIVE DrawdownFrom(_, _, _)
DrawdownFrom(curve, peak, max_dd) ==
    IF curve = <<>> THEN max_dd
    ELSE LET equity == Head(curve)
             new_peak == IF equity > peak THEN equity ELSE peak
             new_max == IF new_peak > 0
                        THEN FMax(max_dd, FMul(Frac(new_peak - equity, new_peak), Whole(100)))
                        ELSE max_dd
         IN  DrawdownFrom(Tail(curve), new_peak, new_max)

\* calculate_max_drawdown
CalculateMaxDrawdown(curve) ==
    IF curve = <<>> THEN Zero ELSE DrawdownFrom(curve, curve[1], Zero)

\* calculate_sharpe_ratio: the per-step returns, taken where the previous equity is > 0
RECURSIVE StepReturns(_, _)
StepReturns(curve, i) ==
    IF i > Len(curve) THEN <<>>
    ELSE (IF curve[i - 1] > 0 THEN <<Frac(curve[i] - curve[i - 1], curve[i - 1])>> ELSE <<>>)
         \o StepReturns(curve, i + 1)

\* the float annual_return / annual_std, kept by annual_return and the square of
\* annual_std; 0.0 is the quotient of 0 and 1
Quotient(annual_return, annual_variance) ==
    [annual_return |-> annual_return, annual_variance |-> annual_variance]
SharpeZero == Quotient(Zero, Whole(1))

\* mutant of CalculateSharpeRatio: the standard deviation is not tested before the division
CalculateSharpeRatio_NoStdCheck(curve) ==
    IF Len(curve) < 2 THEN Returned(SharpeZero)
    ELSE LET returns == StepReturns(curve, 2)
         IN  IF returns = <<>> THEN Returned(SharpeZero)
             ELSE LET mean_return == FDiv(FSum(returns), Whole(Len(returns)))
                  IN  IF Len(returns) < 2 THEN Returned(SharpeZero)
                      ELSE LET sq == [i \in 1..Len(returns) |->
                                        FMul(FSub(returns[i], mean_return),
                                             FSub(returns[i], mean_return))]
                               variance == FDiv(FSum(sq), Whole(Len(returns) - 1))
                           IN  IF variance = Zero THEN Raised("ZeroDivisionError")
                               ELSE Returned(Quotient(FMul(mean_return, Whole(PeriodsPerYear)),
                                                      FMul(variance, Whole(PeriodsPerYear))))

\* calculate_sharpe_ratio (risk_free_rate = 0)
CalculateSharpeRatio(curve) ==
    IF Len(curve) < 2 THEN Returned(SharpeZero)
    ELSE LET returns == StepReturns(curve, 2)
         IN  IF returns = <<>> THEN Returned(SharpeZero)
             ELSE LET mean_return == FDiv(FSum(returns), Whole(Len(returns)))
                  IN  IF Len(returns) < 2 THEN Returned(SharpeZero)
                      ELSE LET sq == [i \in 1..Len(returns) |->
                                        FMul(FSub(returns[i], mean_return),
                                             FSub(returns[i], mean_return))]
                               variance == FDiv(FSum(sq), Whole(Len(returns) - 1))
                           IN  IF variance = Zero THEN Returned(SharpeZero)
                               ELSE Returned(Quotient(FMul(mean_return, Whole(PeriodsPerYear)),
                                                      FMul(variance, Whole(PeriodsPerYear))))

\* calculate_calmar_ratio
CalculateCalmarRatio(curve) ==
    IF Len(curve) < 2 THEN Returned(Zero)
    ELSE IF curve[1] = 0 THEN Raised("ZeroDivisionError")
    ELSE LET total_return == Frac(curve[Len(curve)] - curve[1], curve[1])
             annual_return == FMul(total_return, Frac(PeriodsPerYear, Len(curve)))
             max_dd == FDiv(CalculateMaxDrawdown(curve), Whole(100))
         IN  IF max_dd = Zero THEN Returned(Inf)
             ELSE Returned(FDiv(annual_return, max_dd))

RECURSIVE SumPnl(_)
SumPnl(ts) == IF ts = <<>> THEN 0 ELSE Head(ts).pnl + SumPnl(Tail(ts))

\* mutant of ProfitFactor: no losses give a profit factor of 0
ProfitFactor_ZeroWithoutLoss(gross_profit, gross_loss) ==
    IF gross_loss > 0 THEN Frac(gross_profit, gross_loss) ELSE Zero

\* calculate_metrics: profit_factor
ProfitFactor(gross_profit, gross_loss) ==
    IF gross_loss > 0 THEN Frac(gross_profit, gross_loss) ELSE Inf

\* calculate_metrics: the metrics of a trade list that is not empty, given the
\* Sharpe ratio of the curve
MetricsOf(ts, curve, sharpe_ratio) ==
    LET IsWinner(t) == t.pnl > 0
        IsLoser(t) == t.pnl <= 0
        winners == SelectSeq(ts, IsWinner)
        losers == SelectSeq(ts, IsLoser)
        gross_profit == SumPnl(winners)
        gross_loss == Abs(SumPnl(losers))
    IN  BacktestMetrics(
            Len(ts), Len(winners), Len(losers),
            Frac(Len(winners) * 100, Len(ts)),
            ProfitFactor(gross_profit, gross_loss),
            Whole(SumPnl(ts)),
            IF Len(winners) > 0 THEN Frac(gross_profit, Len(winners)) ELSE Zero,
            IF Len(losers) > 0 THEN Frac(gross_loss, Len(losers)) ELSE Zero,
            IF Len(curve) > 1 THEN CalculateMaxDrawdown(curve) ELSE Zero,
            sharpe_ratio)

\* calculate_metrics: sharpe_ratio, an exception of calculate_sharpe_ratio going up
SharpeOf(curve) == IF Len(curve) > 1 THEN CalculateSharpeRatio(curve) ELSE Returned(SharpeZero)

\* mutant of CalculateMetrics: an empty trade list is not set apart, and
\* winning_trades / total_trades divides by zero
CalculateMetrics_NoEmptyGuard(ts, curve, initial_capital) ==
    IF ts = <<>> THEN Raised("ZeroDivisionError")
    ELSE IF SharpeOf(curve).raised # "" THEN SharpeOf(curve)
    ELSE Returned(MetricsOf(ts, curve, SharpeOf(curve).value[1]))

\* calculate_metrics
CalculateMetrics(ts, curve, initial_capital) ==
    IF ts = <<>>
    THEN Returned(BacktestMetrics(0, 0, 0, Zero, Zero, Zero, Zero, Zero, Zero, SharpeZero))
    ELSE IF SharpeOf(curve).raised # "" THEN SharpeOf(curve)
    ELSE Returned(MetricsOf(ts, curve, SharpeOf(curve).value[1]))

\* the trade lists and equity curves the metrics functions are called on
PnlValues == {-2, 0, 3}
TradeLists == UNION { [1..n -> { [pnl |-> x] : x \in PnlValues }] : n \in 0..MaxTrades }
EquityValues == {0, 1, 2, 4}
EquityCurves == UNION { [1..n -> EquityValues] : n \in 0..MaxCurve }

MetricsCalls ==
    { [fn |-> "calculate_metrics", trades |-> ts, equity_curve |-> c, initial_capital |-> 100] :
        ts \in TradeLists, c \in EquityCurves }
    \cup { [fn |-> f, equity_curve |-> c] :
             f \in {"calculate_max_drawdown", "calculate_sharpe_ratio", "calculate_calmar_ratio"},
             c \in EquityCurves }

\* the engine variables of the function calls: an engine that is not run
InitCalc ==
    /\ InitEngine(BacktestConfig(400, 50, 2, 0))
    /\ strategy = AnyStrategy(SignalLevels)
    /\ symbols = <<>>
    /\ bars_by_symbol = [k \in Keys |-> <<>>]
    /\ call \in MetricsCalls
    /\ pm = NoManager

EngineVars ==
    <<pc, config, strategy, symbols, bars_by_symbol, available_capital, positions, trades,
      equity_curve, sorted_timestamps, ti, xi, ei, current_prices, last_eval, results, entries>>

CallCalculateMetrics ==
    /\ call.fn = "calculate_metrics" /\ ret = None
    /\ ret' = Some(CalculateMetrics(call.trades, call.equity_curve, call.initial_capital))
    /\ UNCHANGED <<EngineVars, call, pm>>

CallCalculateMaxDrawdown ==
    /\ call.fn = "calculate_max_drawdown" /\ ret = None
    /\ ret' = Some(Returned(CalculateMaxDrawdown(call.equity_curve)))
    /\ UNCHANGED <<EngineVars, call, pm>>

CallCalculateSharpeRatio ==
    /\ call.fn = "calculate_sharpe_ratio" /\ ret = None
    /\ ret' = Some(CalculateSharpeRatio(call.equity_curve))
    /\ UNCHANGED <<EngineVars, call, pm>>

CallCalculateCalmarRatio ==
    /\ call.fn = "calculate_calmar_ratio" /\ ret = None
    /\ ret' = Some(CalculateCalmarRatio(call.equity_curve))
    /\ UNCHANGED <<EngineVars, call, pm>>

NextCalc ==
    \/ CallCalculateMetrics \/ CallCalculateMaxDrawdown \/ CallCalculateSharpeRatio
    \/ CallCalculateCalmarRatio

SpecCalc == InitCalc /\ [][NextCalc]_vars

(***************************************************************************)
(* core/indicators.py                                                      *)
(***************************************************************************)
FAbs(a) == [num |-> Abs(a.num), den |-> a.den]
\* min(a, b) of Python: the first argument unless the second is smaller
FMin(a, b) == IF FLess(b, a) THEN b ELSE a
FEq(a, b) == a.num * b.den = b.num * a.den
Hundred == Whole(100)

\* a list of numbers as floats
Floats(xs) == [i \in DOMAIN xs |-> Whole(xs[i])]
\* the slices xs[:n], xs[n:] and xs[-n:] for n >= 1
SliceTo(xs, n) == SubSeq(xs, 1, IF n < Len(xs) THEN n ELSE Len(xs))
SliceFrom(xs, n) == SubSeq(xs, (IF n < Len(xs) THEN n ELSE Len(xs)) + 1, Len(xs))
SliceLast(xs, n) == SubSeq(xs, (IF n < Len(xs) THEN Len(xs) - n ELSE 0) + 1, Len(xs))

\* mutant of Sma: no length test, the slice of a short list is the whole list
Sma_NoLengthTest(values, period) ==
    Some(FDiv(FSum(SliceLast(values, period)), Whole(period)))

\* Indicators.sma
Sma(values, period) ==
    IF Len(values) < period THEN None
    ELSE Some(FDiv(FSum(SliceLast(values, period)), Whole(period)))

\* Indicators.ema: the loop over values[period:]
RECURSIVE EmaFrom(_, _, _)
EmaFrom(prices, ema_val, multiplier) ==
    IF prices = <<>> THEN ema_val
    ELSE EmaFrom(Tail(prices),
                 FAdd(FMul(Head(prices), multiplier),
                      FMul(ema_val, FSub(Whole(1), multiplier))),
                 multiplier)

\* Indicators.ema
Ema(values, period) ==
    IF Len(values) < period THEN None
    ELSE Some(EmaFrom(SliceFrom(values, period),
                      FDiv(FSum(SliceTo(values, period)), Whole(period)),
                      Frac(2, period + 1)))

\* Wilder's smoothing of rsi, atr and adx: avg = (avg * (period - 1) + x) / period
RECURSIVE WilderFrom(_, _, _)
WilderFrom(xs, avg, period) ==
    IF xs = <<>> THEN avg
    ELSE WilderFrom(Tail(xs),
                    FDiv(FAdd(FMul(avg, Whole(period - 1)), Head(xs)), Whole(period)),
                    period)

\* Indicators.rsi: gains and losses of the price changes
Changes(closes) == [i \in 1..(Len(closes) - 1) |-> FSub(closes[i + 1], closes[i])]
Gains(closes) == [i \in 1..(Len(closes) - 1) |-> FMax(Zero, Changes(closes)[i])]
Losses(closes) == [i \in 1..(Len(closes) - 1) |-> FAbs(FMin(Zero, Changes(closes)[i]))]

\* mutant of Rsi: an average loss of 0 gives 0.0
Rsi_ZeroWithoutLoss(closes, period) ==
    IF Len(closes) < period + 1 THEN None
    ELSE LET avg_gain == WilderFrom(SliceFrom(Gains(closes), period),
                                    FDiv(FSum(SliceTo(Gains(closes), period)), Whole(period)),
                                    period)
             avg_loss == WilderFrom(SliceFrom(Losses(closes), period),
                                    FDiv(FSum(SliceTo(Losses(closes), period)), Whole(period)),
                                    period)
         IN  IF FEq(avg_loss, Zero) THEN Some(Zero)
             ELSE LET rs == FDiv(avg_gain, avg_loss)
                  IN  Some(FSub(Hundred, FDiv(Hundred, FAdd(Whole(1), rs))))

\* Indicators.rsi
Rsi(closes, period) ==
    IF Len(closes) < period + 1 THEN None
    ELSE LET avg_gain == WilderFrom(SliceFrom(Gains(closes), period),
                                    FDiv(FSum(SliceTo(Gains(closes), period)), Whole(period)),
                                    period)
             avg_loss == WilderFrom(SliceFrom(Losses(closes), period),
                                    FDiv(FSum(SliceTo(Losses(closes), period)), Whole(period)),
                                    period)
         IN  IF FEq(avg_loss, Zero) THEN Some(Hundred)
             ELSE LET rs == FDiv(avg_gain, avg_loss)
                  IN  Some(FSub(Hundred, FDiv(Hundred, FAdd(Whole(1), rs))))

\* MACDResult
MACDResult(macd_line, signal_line, histogram) ==
    [macd |-> macd_line, signal |-> signal_line, histogram |-> histogram]

\* Indicators.macd: the MACD line values of closes[:i] for i from slow on; a pair
\* of EMAs enters when both are truthy (neither None nor 0.0)
RECURSIVE MacdValues(_, _, _, _)
MacdValues(closes, fast, slow, i) ==
    IF i > Len(closes) THEN <<>>
    ELSE LET subset == SliceTo(closes, i)
             fast_ema == Ema(subset, fast)
             slow_ema == Ema(subset, slow)
             truthy == /\ fast_ema # None /\ ~FEq(fast_ema[1], Zero)
                       /\ slow_ema # None /\ ~FEq(slow_ema[1], Zero)
         IN  (IF truthy THEN <<FSub(fast_ema[1], slow_ema[1])>> ELSE <<>>)
             \o MacdValues(closes, fast, slow, i + 1)

\* Indicators.macd
Macd(closes, fast, slow, signal) ==
    IF Len(closes) < slow + signal THEN None
    ELSE LET macd_values == MacdValues(closes, fast, slow, slow)
         IN  IF Len(macd_values) < signal THEN None
             ELSE LET macd_line == macd_values[Len(macd_values)]
                      signal_line == Ema(macd_values, signal)
                  IN  IF signal_line = None THEN None
                      ELSE Some(MACDResult(macd_line, signal_line[1],
                                           FSub(macd_line, signal_line[1])))

\* BollingerResult, by the middle band, the variance of the window and the current
\* close: the bands are middle +- std_dev * variance ** 0.5, and percent_b is
\* 0.5 where the variance is 0
BollingerResult(middle, variance, current) ==
    [middle |-> middle, variance |-> variance, current |-> current]

\* Indicators.bollinger_bands
BollingerBands(closes, period) ==
    IF Len(closes) < period THEN None
    ELSE LET window == SliceLast(closes, period)
             middle == FDiv(FSum(window), Whole(period))
             sq == [i \in 1..Len(window) |->
                      FMul(FSub(window[i], middle), FSub(window[i], middle))]
             variance == FDiv(FSum(sq), Whole(period))
         IN  Some(BollingerResult(middle, variance, closes[Len(closes)]))

\* Indicators.atr / Indicators.adx: the true ranges of bars 2..len(closes)
TrueRanges(highs, lows, closes) ==
    [i \in 1..(Len(closes) - 1) |->
        FMax(FMax(FSub(highs[i + 1], lows[i + 1]),
                  FAbs(FSub(highs[i + 1], closes[i]))),
             FAbs(FSub(lows[i + 1], closes[i])))]

\* Indicators.atr
Atr(highs, lows, closes, period) ==
    IF Len(closes) < period + 1 THEN None
    ELSE LET true_ranges == TrueRanges(highs, lows, closes)
         IN  IF Len(true_ranges) < period THEN None
             ELSE Some(WilderFrom(SliceFrom(true_ranges, period),
                                  FDiv(FSum(SliceTo(true_ranges, period)), Whole(period)),
                                  period))

\* KeltnerResult
KeltnerResult(upper, middle, lower) == [upper |-> upper, middle |-> middle, lower |-> lower]

\* Indicators.keltner_channels (multiplier = 2.0)
KeltnerChannels(closes, highs, lows, period) ==
    LET middle == Ema(closes, period)
        atr_val == Atr(highs, lows, closes, period)
    IN  IF middle = None \/ atr_val = None THEN None
        ELSE Some(KeltnerResult(FAdd(middle[1], FMul(Whole(2), atr_val[1])),
                                middle[1],
                                FSub(middle[1], FMul(Whole(2), atr_val[1]))))

\* Indicators.adx: +DM and -DM of bars 2..len(highs)
PlusDM(highs, lows) ==
    [i \in 1..(Len(highs) - 1) |->
        LET up_move == FSub(highs[i + 1], highs[i])
            down_move == FSub(lows[i], lows[i + 1])
        IN  IF FLess(down_move, up_move) /\ FLess(Zero, up_move) THEN up_move ELSE Zero]
MinusDM(highs, lows) ==
    [i \in 1..(Len(highs) - 1) |->
        LET up_move == FSub(highs[i + 1], highs[i])
            down_move == FSub(lows[i], lows[i + 1])
        IN  IF FLess(up_move, down_move) /\ FLess(Zero, down_move) THEN down_move ELSE Zero]

\* Indicators.adx: wilder_smooth, the loop over values[period:]
RECURSIVE SmoothFrom(_, _, _)
SmoothFrom(xs, prev, period) ==
    IF xs = <<>> THEN <<>>
    ELSE LET s == FAdd(FSub(prev, FDiv(prev, Whole(period))), Head(xs))
         IN  <<s>> \o SmoothFrom(Tail(xs), s, period)

\* Indicators.adx: wilder_smooth
WilderSmooth(xs, period) ==
    <<FSum(SliceTo(xs, period))>> \o SmoothFrom(SliceFrom(xs, period), FSum(SliceTo(xs, period)), period)

\* Indicators.adx: the DX values, one for each smoothed true range that is not 0
RECURSIVE DxFrom(_, _, _, _)
DxFrom(smooth_plus_dm, smooth_minus_dm, smooth_tr, i) ==
    IF i > Len(smooth_tr) THEN <<>>
    ELSE (IF FEq(smooth_tr[i], Zero) THEN <<>>
          ELSE LET plus_di == FDiv(FMul(Hundred, smooth_plus_dm[i]), smooth_tr[i])
                   minus_di == FDiv(FMul(Hundred, smooth_minus_dm[i]), smooth_tr[i])
                   di_sum == FAdd(plus_di, minus_di)
               IN  IF FEq(di_sum, Zero) THEN <<Zero>>
                   ELSE <<FDiv(FMul(Hundred, FAbs(FSub(plus_di, minus_di))), di_sum)>>)
         \o DxFrom(smooth_plus_dm, smooth_minus_dm, smooth_tr, i + 1)

DxValues(highs, lows, closes, period) ==
    DxFrom(WilderSmooth(PlusDM(highs, lows), period),
           WilderSmooth(MinusDM(highs, lows), period),
           WilderSmooth(TrueRanges(highs, lows, closes), period), 1)

\* mutant of SmoothedDx: the raw DX of the latest bar
SmoothedDx_RawDx(dx_values, period) == dx_values[Len(dx_values)]

\* Indicators.adx: the smoothed DX
SmoothedDx(dx_values, period) ==
    WilderFrom(SliceFrom(dx_values, period),
               FDiv(FSum(SliceTo(dx_values, period)), Whole(period)),
               period)

\* Indicators.adx
Adx(highs, lows, closes, period) ==
    IF Len(closes) < period * 2 THEN None
    ELSE IF Len(TrueRanges(highs, lows, closes)) < period THEN None
    ELSE LET dx_values == DxValues(highs, lows, closes, period)
         IN  IF Len(dx_values) < period THEN None
             ELSE Some(SmoothedDx(dx_values, period))

\* Indicators.stochastic: max(highs[i-k_period+1:i+1]) and min(lows[...]), i from 1
WindowHigh(highs, i, k_period) ==
    CHOOSE h \in {highs[j] : j \in (i - k_period + 1)..i} :
        \A j \in (i - k_period + 1)..i : ~FLess(h, highs[j])
WindowLow(lows, i, k_period) ==
    CHOOSE l \in {lows[j] : j \in (i - k_period + 1)..i} :
        \A j \in (i - k_period + 1)..i : ~FLess(lows[j], l)

\* Indicators.stochastic: the %K values
KValues(highs, lows, closes, k_period) ==
    [n \in 1..(Len(closes) - k_period + 1) |->
        LET i == n + k_period - 1
            period_high == WindowHigh(highs, i, k_period)
            period_low == WindowLow(lows, i, k_period)
        IN  IF FEq(period_high, period_low) THEN Whole(50)
            ELSE FDiv(FMul(Hundred, FSub(closes[i], period_low)),
                      FSub(period_high, period_low))]

\* Indicators.stochastic
Stochastic(highs, lows, closes, k_period, d_period) ==
    IF Len(closes) < k_period + d_period THEN None
    ELSE LET k_values == KValues(highs, lows, closes, k_period)
         IN  IF Len(k_values) < d_period THEN None
             ELSE Some([k |-> k_values[Len(k_values)],
                        d |-> FDiv(FSum(SliceLast(k_values, d_period)), Whole(d_period))])

\* the inputs of the indicator calls: close series, bar series, periods
MaxSeries == 5
MaxPeriod == 2
CloseValues == {0, 1, 3}
CloseSeries == UNION { [1..n -> CloseValues] : n \in 0..MaxSeries }
\* bars by (high, low, close): a flat bar, a bar rising from it, a wide bar
BarHLC == { <<2, 2, 2>>, <<3, 2, 3>>, <<4, 0, 1>> }
BarSeries == UNION { [1..n -> BarHLC] : n \in 0..MaxSeries }
Periods == 1..MaxPeriod
Highs(series) == Floats([i \in DOMAIN series |-> series[i][1]])
Lows(series) == Floats([i \in DOMAIN series |-> series[i][2]])
Closes(series) == Floats([i \in DOMAIN series |-> series[i][3]])

IndicatorCalls ==
    { [fn |-> f, closes |-> c, period |-> p] :
        f \in {"sma", "ema", "rsi", "bollinger_bands"}, c \in CloseSeries, p \in Periods }
    \cup { [fn |-> "macd", closes |-> c, fast |-> 1, slow |-> s, signal |-> g] :
             c \in CloseSeries, s \in Periods, g \in Periods }
    \cup { [fn |-> f, bars |-> b, period |-> p] :
             f \in {"atr", "keltner_channels", "adx"}, b \in BarSeries, p \in Periods }
    \cup { [fn |-> "stochastic", bars |-> b, k_period |-> k, d_period |-> d] :
             b \in BarSeries, k \in Periods, d \in Periods }

InitInd ==
    /\ InitEngine(BacktestConfig(400, 50, 2, 0))
    /\ strategy = AnyStrategy(SignalLevels)
    /\ symbols = <<>>
    /\ bars_by_symbol = [k \in Keys |-> <<>>]
    /\ call \in IndicatorCalls
    /\ pm = NoManager

CallSma ==
    /\ call.fn = "sma" /\ ret = None
    /\ ret' = Some(Returned(Sma(Floats(call.closes), call.period)))
    /\ UNCHANGED <<EngineVars, call, pm>>

CallEma ==
    /\ call.fn = "ema" /\ ret = None
    /\ ret' = Some(Returned(Ema(Floats(call.closes), call.period)))
    /\ UNCHANGED <<EngineVars, call, pm>>

CallRsi ==
    /\ call.fn = "rsi" /\ ret = None
    /\ ret' = Some(Returned(Rsi(Floats(call.closes), call.period)))
    /\ UNCHANGED <<EngineVars, call, pm>>

CallMacd ==
    /\ call.fn = "macd" /\ ret = None
    /\ ret' = Some(Returned(Macd(Floats(call.closes), call.fast, call.slow, call.signal)))
    /\ UNCHANGED <<EngineVars, call, pm>>

CallBollingerBands ==
    /\ call.fn = "bollinger_bands" /\ ret = None
    /\ ret' = Some(Returned(BollingerBands(Floats(call.closes), call.period)))
    /\ UNCHANGED <<EngineVars, call, pm>>

CallAtr ==
    /\ call.fn = "atr" /\ ret = None
    /\ ret' = Some(Returned(Atr(Highs(call.bars), Lows(call.bars), Closes(call.bars),
                                call.period)))
    /\ UNCHANGED <<EngineVars, call, pm>>

CallKeltnerChannels ==
    /\ call.fn = "keltner_channels" /\ ret = None
    /\ ret' = Some(Returned(KeltnerChannels(Closes(call.bars), Highs(call.bars),
                                            Lows(call.bars), call.period)))
    /\ UNCHANGED <<EngineVars, call, pm>>

CallAdx ==
    /\ call.fn = "adx" /\ ret = None
    /\ ret' = Some(Returned(Adx(Highs(call.bars), Lows(call.bars), Closes(call.bars),
                                call.period)))
    /\ UNCHANGED <<EngineVars, call, pm>>

CallStochastic ==
    /\ call.fn = "stochastic" /\ ret = None
    /\ ret' = Some(Returned(Stochastic(Highs(call.bars), Lows(call.bars), Closes(call.bars),
                                       call.k_period, call.d_period)))
    /\ UNCHANGED <<EngineVars, call, pm>>

NextInd ==
    \/ CallSma \/ CallEma \/ CallRsi \/ CallMacd \/ CallBollingerBands
    \/ CallAtr \/ CallKeltnerChannels \/ CallAdx \/ CallStochastic

SpecInd == InitInd /\ [][NextInd]_vars

(***************************************************************************)
(* core/risk.py                                                            *)
(***************************************************************************)
\* RiskManager: the fields calculate_position_size reads
RiskManager(risk_per_trade_pct, kelly_fraction) ==
    [risk_per_trade_pct |-> risk_per_trade_pct, kelly_fraction |-> kelly_fraction]

\* the truth value of an Optional[float] held as a fraction: neither None nor 0.0
TruthyFloat(x) == x # None /\ x[1].num # 0

\* int(x) for a float x: truncation toward zero
IntOf(x) == IF x.num >= 0 THEN x.num \div x.den ELSE -((-x.num) \div x.den)

\* RiskManager.calculate_position_size; position_size_pct is TRADING.position_size_pct
CalculatePositionSize(self, capital, entry_price, stop_loss, win_rate, avg_win, avg_loss, position_size_pct) ==
    LET position_pct ==
            IF TruthyFloat(win_rate) /\ TruthyFloat(avg_win) /\ TruthyFloat(avg_loss) /\
                FLess(Zero, avg_loss[1])
            THEN LET r == FDiv(avg_win[1], avg_loss[1])
                     kelly == FSub(win_rate[1], FDiv(FSub(Whole(1), win_rate[1]), r))
                 IN  FMul(FMul(FMax(Zero, kelly), self.kelly_fraction), Hundred)
            ELSE position_size_pct
        capped == TruthyFloat(stop_loss) /\ FLess(stop_loss[1], entry_price)
        max_shares_by_risk ==
            IntOf(FDiv(FMul(capital, FDiv(self.risk_per_trade_pct, Hundred)),
                       FSub(entry_price, stop_loss[1])))
        shares_by_pct == IntOf(FDiv(FMul(capital, FDiv(position_pct, Hundred)), entry_price))
        shares == IF capped /\ max_shares_by_risk < shares_by_pct
                  THEN max_shares_by_risk ELSE shares_by_pct
    IN  IF shares > 0 THEN shares ELSE 0

\* the calls of calculate_position_size: statistics and stop supplied or not
OptionalOf(S) == {None} \cup {Some(x) : x \in S}
WinRates == {Zero, Frac(1, 2), Frac(3, 5), Whole(1)}
AvgValues == {Zero, Whole(1), Whole(2)}
RiskCalls ==
    { [fn |-> "calculate_position_size",
       self |-> RiskManager(Whole(2), kf), position_size_pct |-> pct,
       capital |-> Whole(1000), entry_price |-> e, stop_loss |-> sl,
       win_rate |-> w, avg_win |-> aw, avg_loss |-> al] :
        kf \in {Frac(1, 2), Whole(1)}, pct \in {Whole(10), Whole(20)},
        e \in {Whole(10), Whole(20)}, sl \in OptionalOf({Zero, Whole(8), Whole(10)}),
        w \in OptionalOf(WinRates), aw \in OptionalOf(AvgValues), al \in OptionalOf(AvgValues) }

InitRisk ==
    /\ InitEngine(BacktestConfig(400, 50, 2, 0))
    /\ strategy = AnyStrategy(SignalLevels)
    /\ symbols = <<>>
    /\ bars_by_symbol = [k \in Keys |-> <<>>]
    /\ call \in RiskCalls
    /\ pm = NoManager

CallCalculatePositionSize ==
    /\ call.fn = "calculate_position_size" /\ ret = None
    /\ ret' = Some(Returned(CalculatePositionSize(
                call.self, call.capital, call.entry_price, call.stop_loss,
                call.win_rate, call.avg_win, call.avg_loss, call.position_size_pct)))
    /\ UNCHANGED <<EngineVars, call, pm>>

NextRisk == CallCalculatePositionSize

SpecRisk == InitRisk /\ [][NextRisk]_vars

(***************************************************************************)
(* core/position.py                                                        *)
(***************************************************************************)
\* number of open_position / close_position calls made on one PositionManager
MaxCalls == 5

\* PositionManager.__init__
PositionManager(initial_capital) ==
    [ initial_capital |-> initial_capital, available_capital |-> initial_capital,
      positions |-> <<>>, trade_history |-> <<>>, peak_equity |-> initial_capital ]

\* PositionManager.get_equity
GetEquity(m, prices) == m.available_capital + PositionsValue(m.positions, prices)

\* what a method leaves and returns
Outcome(m, result) == [pm |-> m, result |-> result]

\* mutant of ManagerOpenPosition: the cost is not compared with the capital
ManagerOpenPosition_NoCapitalCheck(m, symbol, shares, entry_price) ==
    IF InPositions(m.positions, symbol) THEN Outcome(m, Returned(None))
    ELSE LET position == [symbol |-> symbol, shares |-> shares, entry_price |-> entry_price]
         IN  Outcome([m EXCEPT !.available_capital = @ - shares * entry_price,
                               !.positions = Append(@, position)],
                     Returned(Some(position)))

\* PositionManager.open_position (entry_time, the clock reading, and the levels
\* and strategy name, which are only stored, are left out)
ManagerOpenPosition(m, symbol, shares, entry_price) ==
    IF InPositions(m.positions, symbol) THEN Outcome(m, Returned(None))
    ELSE IF shares * entry_price > m.available_capital THEN Outcome(m, Returned(None))
    ELSE LET position == [symbol |-> symbol, shares |-> shares, entry_price |-> entry_price]
         IN  Outcome([m EXCEPT !.available_capital = @ - shares * entry_price,
                               !.positions = Append(@, position)],
                     Returned(Some(position)))

\* the TradeResult of close_position (pnl_pct kept as an exact fraction)
ManagerTrade(position, exit_price, reason) ==
    [ symbol |-> position.symbol, entry_price |-> position.entry_price,
      exit_price |-> exit_price, shares |-> position.shares,
      pnl |-> (exit_price - position.entry_price) * position.shares,
      pnl_pct |-> [num |-> (exit_price - position.entry_price) * 100, den |-> position.entry_price],
      reason |-> reason ]

\* mutant of ManagerClosePosition: the capital is credited with the pnl, not the proceeds
ManagerClosePosition_PnlOnly(m, symbol, exit_price, reason) ==
    IF ~InPositions(m.positions, symbol) THEN Outcome(m, Returned(None))
    ELSE IF m.positions[PosIndex(m.positions, symbol)].entry_price = 0
         THEN Outcome(m, Raised("ZeroDivisionError"))
    ELSE LET i == PosIndex(m.positions, symbol)
             position == m.positions[i]
             trade == ManagerTrade(position, exit_price, reason)
             after == [m EXCEPT !.available_capital = @ + trade.pnl,
                                !.trade_history = Append(@, trade),
                                !.positions = RemoveAt(@, i)]
             current_equity == GetEquity(after, (symbol :> exit_price))
         IN  Outcome([after EXCEPT !.peak_equity =
                                      IF current_equity > @ THEN current_equity ELSE @],
                     Returned(Some(trade)))

\* PositionManager.close_position; pnl_pct divides by the entry price before
\* anything is changed
ManagerClosePosition(m, symbol, exit_price, reason) ==
    IF ~InPositions(m.positions, symbol) THEN Outcome(m, Returned(None))
    ELSE IF m.positions[PosIndex(m.positions, symbol)].entry_price = 0
         THEN Outcome(m, Raised("ZeroDivisionError"))
    ELSE LET i == PosIndex(m.positions, symbol)
             position == m.positions[i]
             trade == ManagerTrade(position, exit_price, reason)
             after == [m EXCEPT !.available_capital = @ + exit_price * position.shares,
                                !.trade_history = Append(@, trade),
                                !.positions = RemoveAt(@, i)]
             current_equity == GetEquity(after, (symbol :> exit_price))
         IN  Outcome([after EXCEPT !.peak_equity =
                                      IF current_equity > @ THEN current_equity ELSE @],
                     Returned(Some(trade)))

\* the arguments of the calls: orders of no shares and at price 0, orders within
\* and beyond the capital, exits at a loss, at the entry price and at a gain
ManagerCapitals == {100}
OrderShares == {0, 1, 3}
OrderPrices == {0, 10, 40}
ExitPrices == {0, 5, 40}

InitManager ==
    /\ InitEngine(BacktestConfig(400, 50, 2, 0))
    /\ strategy = AnyStrategy(SignalLevels)
    /\ symbols = <<>>
    /\ bars_by_symbol = [k \in Keys |-> <<>>]
    /\ call = [fn |-> "none", n |-> 0]
    /\ \E cap \in ManagerCapitals : pm = PositionManager(cap)

CallOpenPosition ==
    /\ call.n < MaxCalls
    /\ \E symbol \in Keys, shares \in OrderShares, entry_price \in OrderPrices :
          LET out == ManagerOpenPosition(pm, symbol, shares, entry_price)
          IN  /\ call' = [fn |-> "open_position", n |-> call.n + 1, before |-> pm,
                          symbol |-> symbol, shares |-> shares, entry_price |-> entry_price]
              /\ pm' = out.pm
              /\ ret' = Some(out.result)
    /\ UNCHANGED EngineVars

CallClosePosition ==
    /\ call.n < MaxCalls
    /\ \E symbol \in Keys, exit_price \in ExitPrices :
          LET out == ManagerClosePosition(pm, symbol, exit_price, "signal")
          IN  /\ call' = [fn |-> "close_position", n |-> call.n + 1, before |-> pm,
                          symbol |-> symbol, exit_price |-> exit_price]
              /\ pm' = out.pm
              /\ ret' = Some(out.result)
    /\ UNCHANGED EngineVars

NextManager == CallOpenPosition \/ CallClosePosition

SpecManager == InitManager /\ [][NextManager]_vars

(***************************************************************************)
(* Vocabulary of the properties                                            *)
(***************************************************************************)
\* the equity point of the latest processed timestamp has just been appended
\* and nothing has run since
JustRecorded == Len(equity_curve) > 0 /\ ((pc = "exit" /\ xi = 1) \/ pc = "close")

\* the latest processed timestamp, when JustRecorded
RecordedTimestamp == sorted_timestamps[ti - 1]

\* the bar of a symbol at a timestamp, None when it has none
SymbolBarAt(symbol, t) == GetBarAtTimestamp(GetBars(bars_by_symbol, symbol), t)

OpenPositions == { positions[i] : i \in 1..Len(positions) }

RECURSIVE SumOver(_, _)
SumOver(f, S) ==
    IF S = {} THEN 0
    ELSE LET x == CHOOSE y \in S : TRUE IN f[x] + SumOver(f, S \ {x})

\* shares times the close of the symbol's bar at t; shares times the entry price
\* when the symbol has no bar at t
MarkAtCloseOrEntry(p, t) ==
    IF SymbolBarAt(p.symbol, t) # None
    THEN p.shares * SymbolBarAt(p.symbol, t)[1].close
    ELSE p.shares * p.entry_price

\* the state is the one the latest evaluation left
AfterEval(fn) == last_eval.fn = fn /\ pc # "done"

EvalBar == last_eval.bar[1]
EvalPosition == last_eval.position[1]
EvalSignal == last_eval.signal[1]

(***************************************************************************)
(* C1                                                                      *)
(***************************************************************************)
\* C1 as stated: the equity appended at each timestamp t is available_capital
\* plus, over every position open after both passes of t, shares times the close
\* of that symbol's bar at t (so each such position has a bar at t).
C1_EquityMarksEveryPositionAtBarClose ==
    JustRecorded =>
        /\ \A p \in OpenPositions : SymbolBarAt(p.symbol, RecordedTimestamp) # None
        /\ equity_curve[Len(equity_curve)]
             = available_capital
               + SumOver([p \in OpenPositions |->
                            p.shares * SymbolBarAt(p.symbol, RecordedTimestamp)[1].close],
                         OpenPositions)

\* C1 amended: the equity appended at each timestamp t is available_capital plus,
\* over every open position, shares times the close of the symbol's bar at t
\* when the symbol has a bar at t and shares times the entry price otherwise.
C1_EquityMarksAtCloseOrEntry ==
    JustRecorded =>
        equity_curve[Len(equity_curve)]
          = available_capital
            + SumOver([p \in OpenPositions |-> MarkAtCloseOrEntry(p, RecordedTimestamp)],
                      OpenPositions)

\* an equity point over one position marked at a close other than its entry
\* price and one position whose symbol has no bar at the timestamp
C1_Witness ==
    /\ JustRecorded
    /\ \E p \in OpenPositions : SymbolBarAt(p.symbol, RecordedTimestamp) = None
    /\ \E p \in OpenPositions :
          /\ SymbolBarAt(p.symbol, RecordedTimestamp) # None
          /\ SymbolBarAt(p.symbol, RecordedTimestamp)[1].close # p.entry_price

(***************************************************************************)
(* C2                                                                      *)
(***************************************************************************)
\* C2: the number of open positions never exceeds max_positions, and a
\* _check_entry call made with len(positions) >= max_positions does not consult
\* the strategy and opens nothing.
C2_MaxPositions ==
    /\ Len(positions) <= config.max_positions
    /\ (last_eval.fn = "entry" /\ last_eval.n_open >= config.max_positions)
         => (~last_eval.consulted /\ last_eval.signal = None)
    /\ (AfterEval("entry") /\ last_eval.n_open >= config.max_positions)
         => (Len(positions) = last_eval.n_open /\ available_capital = last_eval.capital)

\* _check_entry was called for a symbol while the table was full
C2_Witness ==
    /\ last_eval.fn = "entry"
    /\ config.max_positions >= 1
    /\ last_eval.n_open = config.max_positions
    /\ ~InPositions(positions, last_eval.symbol)

(***************************************************************************)
(* C3                                                                      *)
(***************************************************************************)
\* C3: within a timestamp the first pass has visited every symbol before the
\* second pass evaluates any entry, so an entry evaluation at t sees the capital
\* and the position count left by every exit of t: no trade is closed by the
\* exit pass after an entry evaluation of the same timestamp.
C3_ExitsBeforeEntries ==
    /\ pc = "entry" => xi = Len(symbols) + 1
    /\ last_eval.fn = "entry" =>
         \A i \in 1..Len(trades) :
            i > last_eval.n_trades => trades[i].reason = "end_of_test"
    /\ AfterEval("entry") =>
         \A i \in 1..Len(trades) :
            trades[i].exit_time = EvalBar.timestamp => i <= last_eval.n_trades

\* with room for one position, an exit at t freed the slot and another symbol
\* took it in the entry pass of the same t
C3_Witness ==
    /\ AfterEval("entry")
    /\ config.max_positions = 1
    /\ Len(trades) >= 1
    /\ trades[Len(trades)].exit_time = EvalBar.timestamp
    /\ InPositions(positions, last_eval.symbol)
    /\ positions[PosIndex(positions, last_eval.symbol)].entry_time = EvalBar.timestamp
    /\ trades[Len(trades)].symbol # last_eval.symbol

(***************************************************************************)
(* C4 - C7: the exit price of a position closed on a hard level            *)
(***************************************************************************)
\* the levels of the evaluated position, as the properties read them
StopSet == EvalPosition.stop_loss # None
TargetSet == EvalPosition.take_profit # None
StopLevel == EvalPosition.stop_loss[1]
TargetLevel == EvalPosition.take_profit[1]
StopTouched == StopSet /\ EvalBar.low <= StopLevel
TargetTouched == TargetSet /\ EvalBar.high >= TargetLevel

\* the latest evaluation closed its position at that price for that reason
EvalClosed(price, reason) ==
    /\ Len(trades) > last_eval.n_trades
    /\ LET tr == trades[last_eval.n_trades + 1]
       IN  /\ tr.symbol = last_eval.symbol
           /\ tr.entry_time = EvalPosition.entry_time
           /\ tr.shares = EvalPosition.shares
           /\ tr.exit_time = EvalBar.timestamp
           /\ tr.exit_price = price
           /\ tr.reason = reason

\* C4: a position with a stop, on a bar with low <= stop and open < stop, is
\* closed at the bar's open with reason stop_loss_gap, whether or not the target
\* is hit too.
C4_GapThroughStop ==
    (last_eval.fn = "exit" /\ StopTouched /\ EvalBar.open < StopLevel)
        => EvalClosed(EvalBar.open, "stop_loss_gap")

\* stop 90 and the bar {open 85, high 86, low 80, close 84}: closed at 85
C4_Witness ==
    /\ last_eval.fn = "exit"
    /\ StopSet /\ StopLevel = 90
    /\ EvalBar = Bar(2, 85, 86, 80, 84)
    /\ EvalClosed(85, "stop_loss_gap")

\* C5: when stop and target are both hit and the open lies between them, the
\* level strictly closer to the open is the exit price, with its reason.
C5_TieBreakCloserToOpen ==
    (last_eval.fn = "exit" /\ StopTouched /\ TargetTouched
       /\ StopLevel <= EvalBar.open /\ EvalBar.open <= TargetLevel)
        => /\ Abs(EvalBar.open - StopLevel) < Abs(EvalBar.open - TargetLevel)
                => EvalClosed(StopLevel, "stop_loss")
           /\ Abs(EvalBar.open - TargetLevel) < Abs(EvalBar.open - StopLevel)
                => EvalClosed(TargetLevel, "take_profit")

\* stop 90, target 110 and a bar {open 92, high 112, low 88}: closed at 90
C5_Witness ==
    /\ last_eval.fn = "exit"
    /\ StopSet /\ StopLevel = 90 /\ TargetSet /\ TargetLevel = 110
    /\ EvalBar.open = 92 /\ EvalBar.high = 112 /\ EvalBar.low = 88
    /\ EvalClosed(90, "stop_loss")

C7_SingleLevelHit ==
    /\ (last_eval.fn = "exit" /\ StopTouched /\ EvalBar.open >= StopLevel /\ ~TargetTouched)
         => EvalClosed(StopLevel, "stop_loss")
    /\ (last_eval.fn = "exit" /\ TargetTouched /\ EvalBar.open <= TargetLevel /\ ~StopTouched)
         => EvalClosed(TargetLevel, "take_profit")

\* a bar whose low is exactly the stop, the target being set and not reached
C7_Witness ==
    /\ last_eval.fn = "exit"
    /\ StopSet /\ TargetSet
    /\ EvalBar.low = StopLevel /\ EvalBar.open > StopLevel /\ EvalBar.high < TargetLevel
    /\ EvalClosed(StopLevel, "stop_loss")

LastBarOf(symbol) == bars_by_symbol[symbol][Len(bars_by_symbol[symbol])]

AskedShares ==
    (last_eval.capital * config.position_size_pct) \div (100 * EvalBar.close)
AskedCost == AskedShares * EvalBar.close + config.commission_per_trade

EvalBuy == last_eval.consulted /\ last_eval.signal # None /\ EvalSignal.action = BUY

\* C10: available_capital is >= 0 right after every accepted entry, and a buy
\* whose cost shares * close + commission exceeds available_capital opens
\* nothing and leaves the capital as it was.
C10_NoOverdraft ==
    /\ (AfterEval("entry") /\ Len(positions) > last_eval.n_open) => available_capital >= 0
    /\ (AfterEval("entry") /\ EvalBuy /\ last_eval.capital >= 0 /\ AskedCost > last_eval.capital)
         => /\ ~InPositions(positions, last_eval.symbol)
            /\ Len(positions) = last_eval.n_open
            /\ available_capital = last_eval.capital

\* a buy of at least one share was rejected because its cost with the
\* commission exceeded the available capital
C10_Witness ==
    /\ AfterEval("entry")
    /\ EvalBuy
    /\ AskedShares >= 1
    /\ AskedCost > last_eval.capital
    /\ available_capital = last_eval.capital

(***************************************************************************)
(* C11                                                                     *)
(***************************************************************************)
\* the latest _check_entry call met one of the three constraints
EntryConstraintViolated ==
    \/ last_eval.n_open >= config.max_positions
    \/ EvalBuy /\ AskedShares <= 0
    \/ EvalBuy /\ AskedCost > last_eval.capital

\* C11: an entry that meets a constraint (table at max_positions, shares <= 0,
\* or shares * close + commission > available_capital) changes nothing: capital,
\* position table and trade list are as before, and the second pass has moved
\* on past that symbol.
C11_RejectedEntryIsNoOp ==
    (AfterEval("entry") /\ EntryConstraintViolated)
        => /\ available_capital = last_eval.capital
           /\ positions = last_eval.table
           /\ Len(trades) = last_eval.n_trades
           /\ (pc = "entry" /\ sorted_timestamps[ti] = EvalBar.timestamp)
                 => ei > last_eval.index

\* a buy for which the capital left buys no share was turned away for the first
\* symbol of the list, and the pass went on to the second
C11_Witness ==
    /\ AfterEval("entry")
    /\ EvalBuy
    /\ AskedShares = 0
    /\ last_eval.n_open < config.max_positions
    /\ last_eval.index = 1
    /\ pc = "entry" /\ ei = 2
    /\ positions = last_eval.table

(***************************************************************************)
(* C12                                                                     *)
(***************************************************************************)
\* C12: no two open positions share a symbol; _check_entry is never called for
\* a symbol that holds a position, and the positions held before the call are
\* all still there unchanged after it, whatever the symbols list and the
\* strategy's answer.
C12_OnePositionPerSymbol ==
    /\ \A i, j \in 1..Len(positions) :
          positions[i].symbol = positions[j].symbol => i = j
    /\ last_eval.fn = "entry" => last_eval.position = None
    /\ AfterEval("entry") =>
          /\ Len(positions) >= Len(last_eval.table)
          /\ \A i \in 1..Len(last_eval.table) : positions[i] = last_eval.table[i]

\* the list names a symbol twice; its second visit opened a position at this
\* timestamp and its third visit, with the strategy ready to buy again and room
\* in the table, has passed without a call
C12_Witness ==
    /\ pc = "entry" /\ ei = 4
    /\ symbols[2] = symbols[3]
    /\ last_eval.fn = "entry" /\ last_eval.index = 2
    /\ InPositions(positions, symbols[3])
    /\ positions[PosIndex(positions, symbols[3])].entry_time = sorted_timestamps[ti]
    /\ SymbolBarAt(symbols[3], sorted_timestamps[ti]) # None
    /\ Len(positions) < config.max_positions

(***************************************************************************)
(* C13                                                                     *)
(***************************************************************************)
\* C13: every BacktestResult run() has returned still reads as it did when it
\* was returned: no later reset() or run() on the engine changes its trades or
\* its equity_curve.
C13_ResultOwnedByCaller ==
    \A i \in 1..Len(results) :
        /\ ResultTrades(trades) = results[i].trades
        /\ ResultEquityCurve(equity_curve) = results[i].equity_curve

(***************************************************************************)
(* C14                                                                     *)
(***************************************************************************)
\* C14: with a deterministic strategy, every call of run() on the same symbols,
\* bars and config returns the trades and the equity curve that the first call,
\* made on the fresh engine, returned.
C14_Determinism ==
    \A i \in 1..Len(results) : results[i] = results[1]

\* the second run has returned; the first left a capital other than the initial
\* one and a strategy state in which a symbol's next answer would differ
C14_Witness ==
    /\ pc = "done"
    /\ Len(results) = 2
    /\ \E i \in 1..Len(results[1].trades) : results[1].trades[i].pnl # 0
    /\ available_capital # config.initial_capital
    /\ strategy.policy[1][<<FALSE, 0>>] # strategy.policy[1][<<FALSE, 1>>]
    /\ \E k \in DOMAIN strategy.symbol_state : strategy.symbol_state[k] = 1

(***************************************************************************)
(* C15                                                                     *)
(***************************************************************************)
\* the positions a step takes out of the table
Removed == { i \in 1..Len(positions) : positions[i] \notin { positions'[j] : j \in 1..Len(positions') } }

\* C15: every accepted entry is at any time either an open position or one
\* recorded trade; in every step of a run the trades list keeps what it held and
\* gains exactly one TradeResult per position removed in that step; when run
\* returns, len(trades) is the number of accepted entries.
C15_OneTradePerEntry ==
    /\ [](Len(trades) + Len(positions) = entries)
    /\ [](pc = "done" => Len(trades) = entries)
    /\ [][ pc # "idle" =>
             /\ Len(trades') = Len(trades) + Cardinality(Removed)
             /\ SubSeq(trades', 1, Len(trades)) = trades ]_vars

\* run has returned two trades of one symbol: an entry closed in the exit pass, a
\* second entry closed at the end of the test
C15_Witness ==
    /\ pc = "done"
    /\ entries = 2
    /\ Len(trades) = 2
    /\ trades[1].symbol = trades[2].symbol
    /\ trades[1].reason # "end_of_test"
    /\ trades[2].reason = "end_of_test"

(***************************************************************************)
(* C16                                                                     *)
(***************************************************************************)
\* the latest _check_entry call opened a position
EvalAccepted == Len(positions) > last_eval.n_open

\* C16: on a buy signal shares = floor(available_capital * position_size_pct / 100
\* / close); the entry is accepted exactly when shares > 0 and
\* shares * close + commission <= available_capital; then the capital goes down
\* by exactly that cost and the new position has the shares, entry_price = close,
\* entry_time = the bar's timestamp and the signal's stop_loss and take_profit.
C16_EntrySizing ==
    (AfterEval("entry") /\ EvalBuy) =>
        /\ EvalAccepted <=> (AskedShares > 0 /\ AskedCost <= last_eval.capital)
        /\ EvalAccepted =>
              /\ available_capital = last_eval.capital - AskedCost
              /\ positions = Append(last_eval.table,
                                    [ symbol |-> last_eval.symbol,
                                      shares |-> AskedShares,
                                      entry_price |-> EvalBar.close,
                                      entry_time |-> EvalBar.timestamp,
                                      stop_loss |-> EvalSignal.stop_loss,
                                      take_profit |-> EvalSignal.take_profit ])

\* an accepted entry with a commission, a stop on the signal, and a position
\* value that is not a whole number of shares
C16_Witness ==
    /\ AfterEval("entry")
    /\ EvalBuy
    /\ EvalAccepted
    /\ config.commission_per_trade > 0
    /\ EvalSignal.stop_loss = Some(90)
    /\ AskedShares * 100 * EvalBar.close < last_eval.capital * config.position_size_pct
    /\ available_capital = last_eval.capital - AskedCost

(***************************************************************************)
(* C17                                                                     *)
(***************************************************************************)
\* the table the latest call saw, without the position of the evaluated symbol
TableWithoutEvaluated ==
    LET Others(p) == p.symbol # last_eval.symbol IN SelectSeq(last_eval.table, Others)

\* C17: a close in the exit pass at exit_price adds exactly
\* exit_price * shares - commission to the capital, appends one TradeResult with
\* pnl = (exit_price - entry_price) * shares - commission and
\* pnl_pct = (exit_price - entry_price) / entry_price * 100, removes that position
\* and leaves every other open position as it was.
C17_ExitBookkeeping ==
    (AfterEval("exit") /\ Len(trades) > last_eval.n_trades) =>
        LET tr == trades[last_eval.n_trades + 1]
            p == EvalPosition
        IN  /\ Len(trades) = last_eval.n_trades + 1
            /\ tr.symbol = p.symbol /\ tr.shares = p.shares
            /\ tr.entry_price = p.entry_price /\ tr.entry_time = p.entry_time
            /\ available_capital
                 = last_eval.capital + tr.exit_price * p.shares - config.commission_per_trade
            /\ tr.pnl = (tr.exit_price - p.entry_price) * p.shares - config.commission_per_trade
            /\ tr.pnl_pct.num * p.entry_price
                 = (tr.exit_price - p.entry_price) * 100 * tr.pnl_pct.den
            /\ tr.pnl_pct.den # 0
            /\ positions = TableWithoutEvaluated

\* of two open positions the first was closed at a loss; the second is still
\* in the table
C17_Witness ==
    /\ AfterEval("exit")
    /\ Len(trades) = last_eval.n_trades + 1
    /\ last_eval.n_open = 2
    /\ last_eval.table[1].symbol = last_eval.symbol
    /\ trades[Len(trades)].exit_price < trades[Len(trades)].entry_price
    /\ positions = <<last_eval.table[2]>>

(***************************************************************************)
(* C18                                                                     *)
(***************************************************************************)
\* the timestamps carried by the bars of bars_by_symbol, of listed symbols or not
BarTimestamps ==
    { t \in Timestamps : \E k \in DOMAIN bars_by_symbol :
                            \E i \in 1..Len(bars_by_symbol[k]) : bars_by_symbol[k][i].timestamp = t }

\* C18: the clock of a run is the strictly ascending list of the distinct
\* timestamps of all bars; the timestamps before the current one have each
\* contributed one equity point, no call is made for a bar later than the current
\* timestamp, and after the loop len(equity_curve) is the number of distinct
\* timestamps.
C18_SimulationClock ==
    pc # "idle" =>
        /\ \A i, j \in 1..Len(sorted_timestamps) :
              i < j => sorted_timestamps[i] < sorted_timestamps[j]
        /\ { sorted_timestamps[i] : i \in 1..Len(sorted_timestamps) } = BarTimestamps
        /\ pc \in {"exit", "entry"} =>
              /\ ti <= Len(sorted_timestamps)
              /\ Len(equity_curve) = ti - 1
              /\ last_eval.fn # "none" => EvalBar.timestamp <= sorted_timestamps[ti]
        /\ pc \in {"close", "done"} => Len(equity_curve) = Cardinality(BarTimestamps)

\* a run without a trade returned two equity points; the second timestamp is
\* carried only by the bars of a symbol that is not in the symbols list
C18_Witness ==
    /\ pc = "done"
    /\ trades = <<>>
    /\ symbols = <<"A", "C">>
    /\ Len(bars_by_symbol["A"]) = 1 /\ bars_by_symbol["A"][1].timestamp = 1
    /\ Len(equity_curve) = 2

(***************************************************************************)
(* C19                                                                     *)
(***************************************************************************)
\* the symbol has no bar with timestamp t in bars_by_symbol
NoBarAt(symbol, t) ==
    \/ symbol \notin DOMAIN bars_by_symbol
    \/ \A i \in 1..Len(bars_by_symbol[symbol]) : bars_by_symbol[symbol][i].timestamp # t

\* a pass is about to visit a symbol that has no bar at the current timestamp
VisitsSymbolWithoutBar ==
    \/ pc = "exit" /\ xi <= Len(symbols) /\ NoBarAt(symbols[xi], sorted_timestamps[ti])
    \/ pc = "entry" /\ ei <= Len(symbols) /\ NoBarAt(symbols[ei], sorted_timestamps[ti])

\* C19: the visit, in either pass, of a symbol that has no bar at the current
\* timestamp changes neither the capital, the positions, the trades nor the
\* prices of the timestamp, and makes no call of _check_exit_conditions,
\* _check_entry or the strategy.
C19_NoBarNoVisit ==
    [][ VisitsSymbolWithoutBar =>
          UNCHANGED <<available_capital, positions, trades, current_prices, strategy,
                      last_eval, entries>> ]_vars

\* both passes of a timestamp are over; a position entered earlier, with a stop
\* and a target, belongs to a symbol that has no bar at this timestamp
C19_Witness ==
    /\ pc = "entry" /\ ei > Len(symbols)
    /\ \E i \in 1..Len(positions) :
          /\ NoBarAt(positions[i].symbol, sorted_timestamps[ti])
          /\ positions[i].entry_time < sorted_timestamps[ti]
          /\ positions[i].stop_loss # None

(***************************************************************************)
(* C20                                                                     *)
(***************************************************************************)
\* C20: the history of every strategy call is the symbol's bars with timestamp
\* <= the timestamp of the call, all of them, oldest first, the last one being
\* the current bar; the bars it leaves out are all later than that timestamp.
C20_NoLookAhead ==
    last_eval.consulted =>
        LET bars == bars_by_symbol[last_eval.symbol]
            h == last_eval.history
        IN  /\ Len(h) >= 1 /\ Len(h) <= Len(bars)
            /\ h = SubSeq(bars, 1, Len(h))
            /\ h[Len(h)] = EvalBar
            /\ \A i \in 1..Len(h) : h[i].timestamp <= EvalBar.timestamp
            /\ \A i, j \in 1..Len(h) : i < j => h[i].timestamp < h[j].timestamp
            /\ \A i \in (Len(h) + 1)..Len(bars) : bars[i].timestamp > EvalBar.timestamp

\* the strategy was asked for an entry on the first bar of a symbol that has a
\* later bar: the later bar was withheld
C20_Witness ==
    /\ last_eval.consulted
    /\ Len(last_eval.history) < Len(bars_by_symbol[last_eval.symbol])
    /\ last_eval.history = <<EvalBar>>
    /\ last_eval.fn = "entry"

(***************************************************************************)
(* C21                                                                     *)
(***************************************************************************)
\* C21: when the symbols list names a symbol that is not a key of
\* bars_by_symbol, run does not return a BacktestResult.
C21_UnknownSymbolFailsFast ==
    (\E i \in 1..Len(symbols) : symbols[i] \notin DOMAIN bars_by_symbol)
        => results = <<>>

(***************************************************************************)
(* C22 - C26: backtest/metrics.py                                          *)
(***************************************************************************)
\* the call of that function has ended
Called(fn) == call.fn = fn /\ ret # None
\* it returned, and what
Returns == ret[1].raised = ""
Value == ret[1].value[1]

\* C22: calculate_metrics with an empty trade list returns, for any equity curve,
\* a record whose ten fields are all zero, and raises nothing.
C22_EmptyTradesAllZero ==
    (Called("calculate_metrics") /\ call.trades = <<>>) =>
        /\ Returns
        /\ Value.total_trades = 0 /\ Value.winning_trades = 0 /\ Value.losing_trades = 0
        /\ Value.win_rate.num = 0 /\ Value.profit_factor.num = 0 /\ Value.total_pnl.num = 0
        /\ Value.avg_win.num = 0 /\ Value.avg_loss.num = 0 /\ Value.max_drawdown.num = 0
        /\ Value.sharpe_ratio.annual_return.num = 0
        /\ Value.win_rate.den # 0 /\ Value.profit_factor.den # 0 /\ Value.total_pnl.den # 0
        /\ Value.avg_win.den # 0 /\ Value.avg_loss.den # 0 /\ Value.max_drawdown.den # 0
        /\ Value.sharpe_ratio.annual_variance.num # 0

\* no trade, and an equity curve that falls from 4 to 2
C22_Witness ==
    /\ Called("calculate_metrics")
    /\ call.trades = <<>>
    /\ call.equity_curve = <<4, 2>>
    /\ Returns
    /\ Value.max_drawdown = Zero

\* the pnl of the trades of the call that satisfy a condition, summed
PnlOver(idx) == SumOver([i \in idx |-> call.trades[i].pnl], idx)
GrossProfit == PnlOver({ i \in 1..Len(call.trades) : call.trades[i].pnl > 0 })
GrossLoss == Abs(PnlOver({ i \in 1..Len(call.trades) : call.trades[i].pnl <= 0 }))

\* C23: for a trade list that is not empty, profit_factor is gross profit over
\* gross loss when the gross loss is not 0, and +infinity when the gross loss is
\* 0 and there is a winner.
C23_ProfitFactor ==
    (Called("calculate_metrics") /\ call.trades # <<>>) =>
        /\ Returns
        /\ GrossLoss # 0 =>
              /\ Value.profit_factor.den # 0
              /\ Value.profit_factor.num * GrossLoss = GrossProfit * Value.profit_factor.den
        /\ (GrossLoss = 0 /\ GrossProfit > 0) => Value.profit_factor = Inf

\* a winner and a trade with pnl 0: no loss, profit factor +infinity
C23_Witness ==
    /\ Called("calculate_metrics")
    /\ call.trades = <<[pnl |-> 3], [pnl |-> 0]>>
    /\ Returns
    /\ Value.profit_factor = Inf

\* the largest equity at or before point i of a curve
PeakAt(curve, i) == CHOOSE m \in { curve[j] : j \in 1..i } : \A j \in 1..i : curve[j] <= m

\* v is the maximum, over the points whose peak is positive, of
\* (peak - equity) / peak * 100, and 0 when there is no such point
IsMaxDrawdown(curve, v) ==
    LET pts == { i \in 1..Len(curve) : PeakAt(curve, i) > 0 }
    IN  /\ v.den > 0
        /\ \A i \in pts :
              (PeakAt(curve, i) - curve[i]) * 100 * v.den <= v.num * PeakAt(curve, i)
        /\ \/ v.num = 0
           \/ \E i \in pts :
                 (PeakAt(curve, i) - curve[i]) * 100 * v.den = v.num * PeakAt(curve, i)

\* C24: calculate_max_drawdown returns the maximum of (peak - equity) / peak * 100
\* over the points of the curve, the peak being the largest equity so far; 0 for
\* fewer than 2 points and for a curve that never falls; between 0 and 100 for
\* equity values that are not negative.  calculate_metrics reports the same
\* value for a curve of 2 points or more.
C24_MaxDrawdown ==
    /\ Called("calculate_max_drawdown") =>
          LET curve == call.equity_curve
          IN  /\ Returns
              /\ IsMaxDrawdown(curve, Value)
              /\ Len(curve) < 2 => Value.num = 0
              /\ (\A i \in 2..Len(curve) : curve[i - 1] <= curve[i]) => Value.num = 0
              /\ (\A i \in 1..Len(curve) : curve[i] >= 0)
                    => (Value.num >= 0 /\ Value.num <= 100 * Value.den)
    /\ (Called("calculate_metrics") /\ call.trades # <<>> /\ Len(call.equity_curve) > 1)
          => IsMaxDrawdown(call.equity_curve, Value.max_drawdown)

\* a curve that rises from 2 to 4 and falls to 1: 75 percent below the peak
C24_Witness ==
    /\ Called("calculate_max_drawdown")
    /\ call.equity_curve = <<2, 4, 1>>
    /\ Returns
    /\ Value = Whole(75)

\* the steps of the curve of the call that yield a return
ReturnSteps == { i \in 2..Len(call.equity_curve) : call.equity_curve[i - 1] > 0 }
\* the returns of two steps are equal
SameReturn(i, j) ==
    (call.equity_curve[i] - call.equity_curve[i - 1]) * call.equity_curve[j - 1]
        = (call.equity_curve[j] - call.equity_curve[j - 1]) * call.equity_curve[i - 1]

\* C25: calculate_sharpe_ratio returns 0 when the curve yields fewer than 2
\* returns or when the returns are all equal (sample standard deviation 0); it
\* never raises and never divides by a zero deviation.
C25_SharpeDegenerate ==
    Called("calculate_sharpe_ratio") =>
        /\ Returns
        /\ Value.annual_variance.num # 0
        /\ (Cardinality(ReturnSteps) < 2 \/ \A i, j \in ReturnSteps : SameReturn(i, j))
              => Value = SharpeZero

\* a constant curve of three points: two returns, both 0
C25_Witness ==
    /\ Called("calculate_sharpe_ratio")
    /\ call.equity_curve = <<2, 2, 2>>
    /\ Returns
    /\ Value = SharpeZero

\* C26: calculate_calmar_ratio returns +infinity whenever the maximum drawdown
\* of the curve is 0, curves of fewer than 2 points included.
C26_CalmarInfinite ==
    (Called("calculate_calmar_ratio") /\ IsMaxDrawdown(call.equity_curve, Zero))
        => (Returns /\ Value = Inf)

(***************************************************************************)
(* C27 - C29: core/indicators.py                                           *)
(***************************************************************************)
\* the Optional an indicator call returned
IsAbsent == Returns /\ Value = None
IsPresent == Returns /\ Value # None
Result == Value[1]

NoDecrease(closes) == \A i \in 1..(Len(closes) - 1) : closes[i] <= closes[i + 1]
StrictlyIncreasing(closes) == \A i \in 1..(Len(closes) - 1) : closes[i] < closes[i + 1]

\* C27: for a close series of at least period + 1 values, rsi returns a value
\* between 0 and 100; the value is exactly 100 when the smoothed average loss is 0,
\* which is when no close is below the close before it, and so for every strictly
\* increasing series.
C27_RsiBounds ==
    (Called("rsi") /\ Len(call.closes) >= call.period + 1) =>
        /\ IsPresent
        /\ Result.den > 0
        /\ 0 <= Result.num /\ Result.num <= 100 * Result.den
        /\ NoDecrease(call.closes) => Result = Hundred
        /\ StrictlyIncreasing(call.closes) => Result = Hundred

\* rsi was called on a strictly increasing series longer than period + 1 and gave 100
C27_Witness ==
    /\ Called("rsi") /\ call.period = 2 /\ call.closes = <<0, 1, 3>>
    /\ IsPresent /\ Result = Hundred

\* rsi was called on a series with gains and losses and gave a value strictly
\* between 0 and 100
C27_WitnessMixed ==
    /\ Called("rsi") /\ Len(call.closes) > call.period + 1
    /\ IsPresent /\ 0 < Result.num /\ Result.num < 100 * Result.den

\* the DX values of the bars of an adx call, the raw DX of the latest bar, and the
\* smoothed DX of the bars before the latest: the mean of the earlier values while
\* no more than period DX values exist
CallDx == DxValues(Highs(call.bars), Lows(call.bars), Closes(call.bars), call.period)
LatestDx == CallDx[Len(CallDx)]
EarlierDx == SubSeq(CallDx, 1, Len(CallDx) - 1)
SmoothedBefore ==
    IF Len(CallDx) = call.period
    THEN FDiv(FSum(EarlierDx), Whole(call.period - 1))
    ELSE WilderFrom(SliceFrom(EarlierDx, call.period),
                    FDiv(FSum(SliceTo(EarlierDx, call.period)), Whole(call.period)),
                    call.period)

\* C28 as stated: on a series of at least 2 x period bars, the value adx returns
\* differs from the raw unsmoothed DX of the latest bar.
C28_AdxDiffersFromRawDx ==
    (Called("adx") /\ Len(call.bars) >= 2 * call.period /\ IsPresent) =>
        ~FEq(Result, LatestDx)

\* C28 amended: on a series of at least 2 x period bars for which adx returns a
\* value, the value differs from the raw DX of the latest bar exactly when period
\* is at least 2 and the latest DX differs from the smoothed DX of the bars before
\* it; on a steady trend, where every DX is 100, the two are equal.
C28_AdxSmoothed ==
    (Called("adx") /\ Len(call.bars) >= 2 * call.period /\ IsPresent) =>
        (~FEq(Result, LatestDx)
            <=> (call.period >= 2 /\ ~FEq(LatestDx, SmoothedBefore)))

\* adx was called with period 2 on 5 bars, three DX values entered the smoothing,
\* and the value differs from the latest DX
C28_Witness ==
    /\ Called("adx") /\ call.period = 2 /\ Len(call.bars) = 5
    /\ IsPresent /\ Len(CallDx) = 3 /\ ~FEq(Result, LatestDx)

\* adx was called with period 2 on a steady trend and returned the latest DX, 100
C28_WitnessTrend ==
    /\ Called("adx") /\ call.period = 2 /\ Len(call.bars) = 5
    /\ IsPresent /\ Result = Hundred /\ LatestDx = Hundred

\* the length of the input of an indicator call, and the least length at which its
\* window is filled: period values for the averages, one more where a bar is
\* compared with the bar before it, the slow window and signal - 1 further MACD
\* values, period smoothed ranges and period DX values, k_period bars and
\* d_period - 1 further %K values
IndicatorNames ==
    {"sma", "ema", "rsi", "macd", "bollinger_bands", "atr", "keltner_channels", "adx",
     "stochastic"}
InputLen == IF call.fn \in {"sma", "ema", "rsi", "macd", "bollinger_bands"}
            THEN Len(call.closes) ELSE Len(call.bars)
WindowLen ==
    CASE call.fn \in {"sma", "ema", "bollinger_bands"} -> call.period
      [] call.fn \in {"rsi", "atr", "keltner_channels"} -> call.period + 1
      [] call.fn = "macd" -> call.slow + call.signal - 1
      [] call.fn = "adx" -> 2 * call.period
      [] call.fn = "stochastic" -> call.k_period + call.d_period - 1

\* C29: each of the nine indicator functions, called with a period of at least 1
\* on an input shorter than its window, returns None: it raises nothing and
\* returns no value computed from the part of the window that is there.
C29_ShortInputIsAbsent ==
    (call.fn \in IndicatorNames /\ ret # None /\ InputLen < WindowLen) => IsAbsent

\* keltner_channels was called on as many bars as its period, enough for its EMA
\* and one short for its ATR, and returned None
C29_Witness ==
    /\ Called("keltner_channels") /\ call.period = 2 /\ Len(call.bars) = 2
    /\ IsAbsent

\* sma was called on a series that is not empty and shorter than its period
C29_WitnessSma ==
    /\ Called("sma") /\ call.period = 2 /\ Len(call.closes) = 1 /\ IsAbsent

(***************************************************************************)
(* C30: core/risk.py                                                       *)
(***************************************************************************)
\* statistics are supplied to the call, with an average win and loss above 0
StatsSupplied ==
    /\ call.win_rate # None /\ call.avg_win # None /\ call.avg_loss # None
    /\ FLess(Zero, call.avg_win[1]) /\ FLess(Zero, call.avg_loss[1])
StatsAbsent == call.win_rate = None /\ call.avg_win = None /\ call.avg_loss = None
\* winRate - (1 - winRate) / (avgWin / avgLoss)
KellyValue ==
    FSub(call.win_rate[1],
         FDiv(FSub(Whole(1), call.win_rate[1]), FDiv(call.avg_win[1], call.avg_loss[1])))
\* the shares a fraction of the capital buys at the entry price
SharesOf(fraction) == IntOf(FDiv(FMul(call.capital, fraction), call.entry_price))

\* C30: with statistics supplied (avgLoss > 0) the position is the half-Kelly
\* fraction max(0, kelly) x kellyFraction of the capital, so a Kelly value that is
\* not positive gives 0 shares; the fixed percentage is used only when no
\* statistics are supplied.  Stated for calls without a stop.
C30_HalfKellyWhenSupplied ==
    (Called("calculate_position_size") /\ call.stop_loss = None) =>
        /\ StatsSupplied =>
             /\ Returns
             /\ Value = SharesOf(FMul(FMax(Zero, KellyValue), call.self.kelly_fraction))
             /\ ~FLess(Zero, KellyValue) => Value = 0
        /\ StatsAbsent =>
             Returns /\ Value = SharesOf(FDiv(call.position_size_pct, Hundred))

\* C31: calculate_position_size never returns a negative share count, and with a
\* stop given below the entry price the shares risk no more than the share of the
\* capital allowed per trade: shares x (entry_price - stop_loss) <= capital x
\* risk_per_trade_pct / 100.
C31_RiskCapped ==
    Called("calculate_position_size") =>
        /\ Returns
        /\ Value >= 0
        /\ (call.stop_loss # None /\ FLess(call.stop_loss[1], call.entry_price)) =>
             ~FLess(FMul(call.capital, FDiv(call.self.risk_per_trade_pct, Hundred)),
                    FMul(Whole(Value), FSub(call.entry_price, call.stop_loss[1])))

(***************************************************************************)
(* C32 - C37: backtest/engine.py, whole runs                               *)
(***************************************************************************)
\* C32: when run returns, available_capital is initial_capital plus the pnl of all
\* trades minus commission_per_trade for each trade (the entry commission, which
\* no pnl holds); with a commission of zero it is initial_capital plus total pnl.
C32_CashAccounting ==
    pc = "done" =>
        /\ available_capital =
             config.initial_capital + SumPnl(trades) - config.commission_per_trade * Len(trades)
        /\ config.commission_per_trade = 0 =>
             available_capital = config.initial_capital + SumPnl(trades)

\* a run with a commission has returned with two trades whose pnl is not zero
C32_Witness ==
    /\ pc = "done" /\ config.commission_per_trade > 0
    /\ Len(trades) >= 2 /\ SumPnl(trades) # 0 /\ SumPnl(trades) # -config.commission_per_trade * Len(trades)

\* a bar is well-formed
WellFormed(bar) ==
    /\ bar.low <= bar.open /\ bar.open <= bar.high
    /\ bar.low <= bar.close /\ bar.close <= bar.high

\* the trades closed in an exit pass: every trade but those of the closing loop
ExitPassTrades == { i \in 1..Len(trades) : trades[i].reason # "end_of_test" }

\* C33: a trade closed in the exit pass on a well-formed bar has its exit price
\* between the low and the high of that bar, whichever rule priced it.
C33_ExitPriceWithinBar ==
    \A i \in ExitPassTrades :
        LET bar == SymbolBarAt(trades[i].symbol, trades[i].exit_time)
        IN  /\ bar # None
            /\ WellFormed(bar[1]) =>
                 (bar[1].low <= trades[i].exit_price /\ trades[i].exit_price <= bar[1].high)

\* a position was closed at its target on a bar whose high is exactly the target
\* and whose open and close lie below it
C33_Witness ==
    \E i \in ExitPassTrades :
        LET bar == SymbolBarAt(trades[i].symbol, trades[i].exit_time)
        IN  /\ bar # None /\ WellFormed(bar[1])
            /\ trades[i].reason = "take_profit"
            /\ trades[i].exit_price = bar[1].high
            /\ bar[1].open < bar[1].high /\ bar[1].close < bar[1].high

\* the timestamp of the final bar of a symbol
FinalTimestamp(symbol) ==
    bars_by_symbol[symbol][Len(bars_by_symbol[symbol])].timestamp

\* C34: every trade has exit_time >= entry_time; the exit pass never evaluates a
\* position at the timestamp it was opened at, so a trade with exit_time equal to
\* entry_time is an end_of_test close of a position entered on the final bar of
\* its symbol.
C34_ExitNotBeforeEntry ==
    /\ \A i \in 1..Len(trades) :
          /\ trades[i].exit_time >= trades[i].entry_time
          /\ trades[i].exit_time = trades[i].entry_time =>
               /\ trades[i].reason = "end_of_test"
               /\ trades[i].entry_time = FinalTimestamp(trades[i].symbol)
    /\ (last_eval.fn = "exit" /\ last_eval.position # None) =>
          EvalPosition.entry_time < EvalBar.timestamp

\* a run returned one trade closed in an exit pass after its entry and one closed
\* at the end of the test on the bar it was entered on
C34_Witness ==
    /\ pc = "done"
    /\ \E i \in 1..Len(trades) :
          trades[i].reason # "end_of_test" /\ trades[i].exit_time > trades[i].entry_time
    /\ \E i \in 1..Len(trades) :
          trades[i].reason = "end_of_test" /\ trades[i].exit_time = trades[i].entry_time

\* a position of the symbol was closed in the exit pass of timestamp t
ClosedInExitPass(symbol, t) ==
    \E i \in 1..Len(trades) :
        trades[i].symbol = symbol /\ trades[i].exit_time = t /\ trades[i].reason # "end_of_test"

\* the position the latest _check_entry call opened for its symbol, at the close
\* and the timestamp of its bar
ReopenedAtClose ==
    /\ InPositions(positions, last_eval.symbol)
    /\ LET p == positions[PosIndex(positions, last_eval.symbol)]
       IN  p.entry_price = EvalBar.close /\ p.entry_time = EvalBar.timestamp

\* the second pass has just gone past a symbol closed in the exit pass of the
\* current timestamp
PassedClosedSymbol ==
    /\ pc = "entry" /\ ei > 1
    /\ ClosedInExitPass(symbols[ei - 1], sorted_timestamps[ti])

\* C35 as stated: for a symbol closed in the exit pass of t the strategy is called
\* in the entry pass of t, with position_open = FALSE, and a buy signal re-opens a
\* position at the close of that bar.
C35_ClosedSymbolReenters ==
    /\ PassedClosedSymbol =>
          /\ last_eval.fn = "entry" /\ last_eval.symbol = symbols[ei - 1]
          /\ EvalBar.timestamp = sorted_timestamps[ti]
    /\ (AfterEval("entry") /\ ClosedInExitPass(last_eval.symbol, EvalBar.timestamp)) =>
          /\ last_eval.consulted /\ ~last_eval.position_open
          /\ EvalBuy => ReopenedAtClose

\* C35 amended: a symbol closed in the exit pass of t is considered again in the
\* entry pass of t: _check_entry is called for it on the same bar unless an earlier
\* visit of the pass re-opened it; the strategy is called, with position_open =
\* FALSE, exactly when fewer than max_positions positions are open at that call,
\* and a buy signal whose order passes the share and capital tests re-opens a
\* position at the close of that bar.
C35_ClosedSymbolEligible ==
    /\ PassedClosedSymbol =>
          \/ /\ last_eval.fn = "entry" /\ last_eval.index = ei - 1
             /\ last_eval.symbol = symbols[ei - 1]
             /\ EvalBar.timestamp = sorted_timestamps[ti]
          \/ /\ InPositions(positions, symbols[ei - 1])
             /\ positions[PosIndex(positions, symbols[ei - 1])].entry_time = sorted_timestamps[ti]
    /\ (AfterEval("entry") /\ ClosedInExitPass(last_eval.symbol, EvalBar.timestamp)) =>
          /\ last_eval.consulted <=> last_eval.n_open < config.max_positions
          /\ ~last_eval.position_open
          /\ (EvalBuy /\ AskedShares > 0 /\ AskedCost <= last_eval.capital) => ReopenedAtClose

\* a symbol stopped out in the exit pass of a timestamp was bought again in the
\* entry pass of the same timestamp, at the close of the same bar
C35_Witness ==
    /\ AfterEval("entry")
    /\ ClosedInExitPass(last_eval.symbol, EvalBar.timestamp)
    /\ last_eval.consulted /\ EvalBuy /\ EvalAccepted
    /\ ReopenedAtClose

\* the close of the latest bar of a symbol at or before timestamp t
LastKnownClose(symbol, t) ==
    LET bars == GetHistoryUpTo(GetBars(bars_by_symbol, symbol), t)
    IN  bars[Len(bars)].close

\* the open positions whose symbol has no bar at t
Unpriced(t) == { p \in OpenPositions : SymbolBarAt(p.symbol, t) = None }

\* C36: in the equity point of t an open position whose symbol has no bar at t
\* counts for shares x entry_price, whatever the latest close of the symbol was:
\* the point is the capital plus the positions with a bar at their close of t plus
\* the positions without one at their entry price.
C36_UnpricedAtEntryPrice ==
    (JustRecorded /\ Unpriced(RecordedTimestamp) # {}) =>
        equity_curve[Len(equity_curve)]
          = available_capital
            + SumOver([p \in Unpriced(RecordedTimestamp) |-> p.shares * p.entry_price],
                      Unpriced(RecordedTimestamp))
            + SumOver([p \in OpenPositions \ Unpriced(RecordedTimestamp) |->
                         p.shares * SymbolBarAt(p.symbol, RecordedTimestamp)[1].close],
                      OpenPositions \ Unpriced(RecordedTimestamp))

\* the equity point of a timestamp at which a position has no bar, the latest
\* close of its symbol being another price than its entry price
C36_Witness ==
    /\ JustRecorded
    /\ \E p \in Unpriced(RecordedTimestamp) :
          /\ LastKnownClose(p.symbol, RecordedTimestamp) # p.entry_price
          /\ equity_curve[Len(equity_curve)] = available_capital + p.shares * p.entry_price

\* C37: when stop and target are both hit, the open gaps through neither and is
\* exactly as far from the stop as from the target, the position is closed at the
\* target with reason take_profit.
C37_TieGoesToTarget ==
    (last_eval.fn = "exit" /\ StopTouched /\ TargetTouched
       /\ EvalBar.open >= StopLevel /\ EvalBar.open <= TargetLevel
       /\ Abs(EvalBar.open - StopLevel) = Abs(EvalBar.open - TargetLevel))
        => EvalClosed(TargetLevel, "take_profit")

\* stop 90, target 110 and a bar that opens at 100 and reaches both: closed at 110
C37_Witness ==
    /\ last_eval.fn = "exit"
    /\ StopSet /\ StopLevel = 90 /\ TargetSet /\ TargetLevel = 110
    /\ EvalBar.open = 100 /\ EvalBar.low = 90 /\ EvalBar.high = 110
    /\ EvalClosed(110, "take_profit")

(***************************************************************************)
(* C38 - C39: core/position.py                                             *)
(***************************************************************************)
RECURSIVE CostBasis(_)
CostBasis(ps) ==
    IF ps = <<>> THEN 0 ELSE Head(ps).shares * Head(ps).entry_price + CostBasis(Tail(ps))

\* C38: after any sequence of open_position and close_position calls,
\* available_capital plus shares x entry_price over the open positions equals
\* initial_capital plus the pnl over trade_history.
C38_Conservation ==
    pm # NoManager =>
        pm.available_capital + CostBasis(pm.positions)
          = pm.initial_capital + SumPnl(pm.trade_history)

\* a manager with one position open and two trades behind it, one at a loss and
\* one at a gain
C38_Witness ==
    /\ pm # NoManager
    /\ Len(pm.positions) = 1 /\ Len(pm.trade_history) = 2
    /\ \E i, j \in 1..2 : pm.trade_history[i].pnl < 0 /\ pm.trade_history[j].pnl > 0

\* the latest call was turned away
Rejected == ret # None /\ Returns /\ Value = None

\* C39: open_position returns None and changes nothing when the symbol has a
\* position or shares x entry_price exceeds available_capital, close_position
\* returns None and changes nothing when the symbol has no position; the capital
\* is never negative.
C39_RejectsWithoutEffect ==
    /\ call.fn = "open_position" =>
          /\ (InPositions(call.before.positions, call.symbol)
                \/ call.shares * call.entry_price > call.before.available_capital)
               => (Rejected /\ pm = call.before)
          /\ Rejected => pm = call.before
    /\ call.fn = "close_position" =>
          /\ ~InPositions(call.before.positions, call.symbol) => (Rejected /\ pm = call.before)
          /\ Rejected => pm = call.before
    /\ pm # NoManager => pm.available_capital >= 0

\* an order beyond the capital left by an open position was turned away, for a
\* symbol that has no position
C39_Witness ==
    /\ call.fn = "open_position" /\ Rejected
    /\ ~InPositions(call.before.positions, call.symbol)
    /\ Len(call.before.positions) = 1
    /\ call.shares * call.entry_price > call.before.available_capital
    /\ pm = call.before

\* a close for a symbol without a position was turned away while the other symbol
\* holds one
C39_WitnessClose ==
    /\ call.fn = "close_position" /\ Rejected
    /\ Len(pm.positions) = 1 /\ pm = call.before

====
